---- MODULE Spec2Model ----
(***************************************************************************)
(* A model of the writers-toolkit beat pipeline (toolkit/scripts/core).    *)
(*                                                                         *)
(* The program is a set of synchronous functions over a story root on disk.*)
(* The state is the story root (`disk`), the call being made (`call`), the *)
(* position of that call (`pc`), its local variables (`frame`), the        *)
(* template files it has read (`reads`), what it returned or raised        *)
(* (`ret`), and what lies outside the story root (`world`): the process    *)
(* environment, the clients created and the requests sent to the           *)
(* completion endpoint.                                                    *)
(*                                                                         *)
(* Text is a sequence of one-character strings, so that strip(),           *)
(* splitlines(), startswith() and replace() are computed as Python         *)
(* computes them.  A few multi-character units are kept as one element     *)
(* where no operation of the code can split them: the front-matter marker  *)
(* "---", one line of YAML front matter, the suffix "_OVER_TIME" and the   *)
(* braces "{{" and "}}".                                                    *)
(*                                                                         *)
(* A Python dict whose iteration order matters is a sequence of            *)
(* [k |-> key, v |-> value] entries in insertion order; a dict whose order *)
(* never matters (a card, a YAML mapping) is a function on its key set.    *)
(***************************************************************************)
EXTENDS Integers, Sequences, FiniteSets, TLC

VARIABLES disk, call, pc, frame, reads, ret, world

vars == <<disk, call, pc, frame, reads, ret, world>>

-----------------------------------------------------------------------------
(* Bounds of the model.                                                    *)

\* files in one codex folder
MaxFiles == 2

\* identifiers in one request for over-time cards
MaxIds == 2

-----------------------------------------------------------------------------
(* Python str operations.                                                  *)

NL == "\n"

\* the characters str.strip() removes
Whitespace == {" ", NL}

RECURSIVE LStripSet(_, _)
LStripSet(s, chars) ==
    IF s # <<>> /\ Head(s) \in chars THEN LStripSet(Tail(s), chars) ELSE s

RECURSIVE RStripSet(_, _)
RStripSet(s, chars) ==
    IF s # <<>> /\ s[Len(s)] \in chars
    THEN RStripSet(SubSeq(s, 1, Len(s) - 1), chars)
    ELSE s

\* str.lstrip()
LStrip(s) == LStripSet(s, Whitespace)

\* str.strip()
Strip(s) == RStripSet(LStripSet(s, Whitespace), Whitespace)

\* str.startswith(prefix)
StartsWith(s, prefix) ==
    /\ Len(prefix) <= Len(s)
    /\ SubSeq(s, 1, Len(prefix)) = prefix

\* str.find(sub): the 0-based index of the first occurrence, or -1
Find(s, sub) ==
    LET hits == {i \in 0..(Len(s) - Len(sub)) :
                    SubSeq(s, i + 1, i + Len(sub)) = sub}
    IN  IF hits = {} THEN -1
        ELSE CHOOSE i \in hits : \A j \in hits : i <= j

\* str.replace(old, new), old not empty: every occurrence, left to right,
\* without rescanning what was inserted
RECURSIVE Replace(_, _, _)
Replace(s, old, new) ==
    LET at == Find(s, old)
    IN  IF at = -1 THEN s
        ELSE SubSeq(s, 1, at) \o new
             \o Replace(SubSeq(s, at + Len(old) + 1, Len(s)), old, new)

\* str.splitlines(): no last empty line for a text that ends with a newline
RECURSIVE SplitLines(_)
SplitLines(s) ==
    IF s = <<>> THEN <<>>
    ELSE LET at == Find(s, <<NL>>)
         IN  IF at = -1 THEN <<s>>
             ELSE <<SubSeq(s, 1, at)>> \o SplitLines(SubSeq(s, at + 2, Len(s)))

\* sep.join(parts)
RECURSIVE Join(_, _)
Join(sep, parts) ==
    IF parts = <<>> THEN <<>>
    ELSE IF Len(parts) = 1 THEN parts[1]
    ELSE parts[1] \o sep \o Join(sep, Tail(parts))

\* the text whose lines are `lines`
Text(lines) == Join(<<NL>>, lines)

-----------------------------------------------------------------------------
(* Python dict operations.                                                 *)

\* an empty mapping
EmptyMap == [x \in {} |-> <<>>]

\* d[k] = v on an insertion-ordered dict: a key already there keeps its place
DictSet(d, k, v) ==
    IF \E i \in 1..Len(d) : d[i].k = k
    THEN [i \in 1..Len(d) |-> IF d[i].k = k THEN [k |-> k, v |-> v] ELSE d[i]]
    ELSE Append(d, [k |-> k, v |-> v])

DictKeys(d) == [i \in 1..Len(d) |-> d[i].k]

DictHas(d, k) == \E i \in 1..Len(d) : d[i].k = k

\* d[k], for a key of d
DictGet(d, k) == d[CHOOSE i \in 1..Len(d) : d[i].k = k].v

\* x is falsy: None (absent) or empty
Truthy(m, k) == k \in DOMAIN m /\ m[k] # <<>>

\* m with m[k] = v
MapSet(m, k, v) == [x \in DOMAIN m \cup {k} |-> IF x = k THEN v ELSE m[x]]

\* what a call gives back: a value, or the exception it raised
Returned(v) == [ok |-> TRUE, val |-> v, err |-> "none"]
Raised(e) == [ok |-> FALSE, val |-> <<>>, err |-> e]

\* an exception with its message
RaisedWith(e, message) == [ok |-> FALSE, val |-> message, err |-> e]

-----------------------------------------------------------------------------
(* codex.py: card files.                                                   *)

\* the front-matter delimiter, "---"
Marker == "---"

\* the lines of YAML front matter the model's cards are written with, and
\* the key and value yaml.safe_load gives for each
YamlLine ==
       ("unique-id: A" :> [k |-> "unique-id", v |-> <<"A">>])
    @@ ("unique-id: B" :> [k |-> "unique-id", v |-> <<"B">>])
    @@ ("unique-id: A_OVER_TIME" :> [k |-> "unique-id", v |-> <<"A", "_OVER_TIME">>])
    @@ ("unique-id: A_OVER_TIME_OVER_TIME" :>
            [k |-> "unique-id", v |-> <<"A", "_OVER_TIME", "_OVER_TIME">>])
    @@ ("unique-id: _OVER_TIMEA_OVER_TIME" :>
            [k |-> "unique-id", v |-> <<"_OVER_TIME", "A", "_OVER_TIME">>])
    @@ ("unique-id: B_OVER_TIME" :> [k |-> "unique-id", v |-> <<"B", "_OVER_TIME">>])
    @@ ("names: [ m ]" :> [k |-> "names", v |-> << <<" ", "m", " ">> >>])
    @@ ("names: [n, m]" :> [k |-> "names", v |-> << <<"n">>, <<"m">> >>])
    @@ ("names: []" :> [k |-> "names", v |-> << >>])
    @@ ("summary: ' s '" :> [k |-> "summary", v |-> <<" ", "s", " ">>])
    @@ ("summary: ''" :> [k |-> "summary", v |-> << >>])
    @@ ("chapter_state: c" :> [k |-> "chapter_state", v |-> <<"c">>])
    @@ ("unique-id: STYLE_PROJECT_DEFAULT" :>
            [k |-> "unique-id", v |-> <<"STYLE_PROJECT_DEFAULT">>])
    @@ ("default_tone: t" :> [k |-> "default_tone", v |-> <<"t">>])
    @@ ("character: m" :> [k |-> "character", v |-> <<"m">>])
    @@ ("character: n" :> [k |-> "character", v |-> <<"n">>])

\* a line yaml.safe_load rejects with a YAMLError
BadYaml == "key: [unclosed"

\* yaml.safe_load(fm_text): a mapping (a later key overriding an earlier
\* one), nothing for an empty document, the scalar for a document that is
\* plain text, or a YAMLError
RECURSIVE YamlMapping(_)
YamlMapping(lines) ==
    IF lines = <<>> THEN EmptyMap
    ELSE LET rest == YamlMapping(SubSeq(lines, 1, Len(lines) - 1))
             e == YamlLine[lines[Len(lines)][1]]
         IN  MapSet(rest, e.k, e.v)

yaml_safe_load(fm_text) ==
    LET lines == SelectSeq(SplitLines(fm_text), LAMBDA ln : Strip(ln) # <<>>)
    IN  IF lines = <<>> THEN [kind |-> "none", map |-> EmptyMap]
        ELSE IF \E i \in 1..Len(lines) : BadYaml \in {lines[i][j] : j \in 1..Len(lines[i])}
        THEN [kind |-> "error", map |-> EmptyMap]
        ELSE IF \A i \in 1..Len(lines) :
                    Len(lines[i]) = 1 /\ lines[i][1] \in DOMAIN YamlLine
        THEN [kind |-> "mapping", map |-> YamlMapping(lines)]
        ELSE IF Len(lines) = 1 THEN [kind |-> "scalar", map |-> EmptyMap]
        ELSE [kind |-> "error", map |-> EmptyMap]

\* _parse_markdown_card: meta is the parsed front matter, {} when there is
\* none, it is not closed, it is empty or it does not parse; a front matter
\* that parses to something that is no mapping is handed on as it is
\* (mapping = FALSE)
_parse_markdown_card(text) ==
    LET whole == [mapping |-> TRUE, meta |-> EmptyMap, body |-> text]
        nl == Find(text, <<NL>>)
        rest == SubSeq(text, nl + 2, Len(text))
        fm_end == Find(rest, <<NL, Marker>>)
        fm_text == SubSeq(rest, 1, fm_end)
        body == LStripSet(SubSeq(rest, fm_end + 3, Len(rest)), {NL})
        loaded == yaml_safe_load(fm_text)
    IN  IF ~StartsWith(text, <<Marker>>) THEN whole
        ELSE IF nl = -1 THEN whole
        ELSE IF fm_end = -1 THEN whole
        ELSE IF loaded.kind = "mapping" /\ DOMAIN loaded.map # {}
             THEN [mapping |-> TRUE, meta |-> loaded.map, body |-> body]
        ELSE IF loaded.kind = "scalar"
             THEN [mapping |-> FALSE, meta |-> EmptyMap, body |-> body]
        ELSE [mapping |-> TRUE, meta |-> EmptyMap, body |-> body]

\* the non-blank lines of a card body, as they are
StrippedLines_unstripped(body) ==
    SelectSeq(SplitLines(body), LAMBDA ln : Strip(ln) # <<>>)

\* the non-blank lines of a card body, stripped (codex.py:150)
StrippedLines(body) ==
    LET stripped == [i \in 1..Len(SplitLines(body)) |-> Strip(SplitLines(body)[i])]
    IN  SelectSeq(stripped, LAMBDA ln : ln # <<>>)

\* the summary _normalize_card derives from a body that has a non-blank line
DerivedSummary(body) == StrippedLines(body)[1]

\* _normalize_card: the metadata, plus body and raw_text, plus name when
\* `names` is a non-empty list, plus summary when the metadata has none and
\* the body has a non-blank line
_normalize_card(meta, body) ==
    LET c1 == MapSet(MapSet(meta, "body", body), "raw_text", body)
        c2 == IF "names" \in DOMAIN meta /\ meta["names"] # <<>>
              THEN MapSet(c1, "name", Strip(meta["names"][1]))
              ELSE c1
    IN  IF "summary" \notin DOMAIN c2 /\ StrippedLines(body) # <<>>
        THEN MapSet(c2, "summary", DerivedSummary(body))
        ELSE c2

\* the id a card file is stored under: its unique-id, else the file's stem
CardId(meta, stem) ==
    IF Truthy(meta, "unique-id") THEN meta["unique-id"] ELSE stem

\* the loop of _load_cards_for_type over the files of a folder, in the
\* order glob() lists them; dict(meta) raises for a meta that is no mapping
RECURSIVE LoadFiles(_)
LoadFiles(files) ==
    IF files = <<>> THEN Returned(<<>>)
    ELSE LET before == LoadFiles(SubSeq(files, 1, Len(files) - 1))
             file == files[Len(files)]
             parsed == _parse_markdown_card(file.text)
         IN  IF ~before.ok THEN before
             ELSE IF ~parsed.mapping THEN Raised("ValueError")
             ELSE Returned(DictSet(before.val,
                                   CardId(parsed.meta, file.stem),
                                   _normalize_card(parsed.meta, parsed.body)))

\* _load_cards_for_type indexing types_cfg[type_key] instead of .get()
_load_cards_for_type_indexing(d, type_key) ==
    LET index == d.index.doc
        types_cfg == IF "types" \in DOMAIN index THEN index["types"] ELSE EmptyMap
        type_cfg == types_cfg[type_key]
        folder_name == type_cfg["folder"]
    IN  IF ~d.index.exists THEN Raised("FileNotFoundError")
        ELSE IF type_key \notin DOMAIN types_cfg THEN Raised("KeyError")
        ELSE IF DOMAIN type_cfg = {} THEN Returned(<<>>)
        ELSE IF "folder" \notin DOMAIN type_cfg \/ folder_name = ""
             THEN Returned(<<>>)
        ELSE IF folder_name \notin DOMAIN d.folders THEN Returned(<<>>)
        ELSE LoadFiles(d.folders[folder_name])

\* _load_codex_index and _load_cards_for_type on the story root d
_load_cards_for_type(d, type_key) ==
    LET index == d.index.doc
        types_cfg == IF "types" \in DOMAIN index THEN index["types"] ELSE EmptyMap
        type_cfg == types_cfg[type_key]
        folder_name == type_cfg["folder"]
    IN  IF ~d.index.exists THEN Raised("FileNotFoundError")
        ELSE IF type_key \notin DOMAIN types_cfg \/ DOMAIN type_cfg = {}
             THEN Returned(<<>>)
        ELSE IF "folder" \notin DOMAIN type_cfg \/ folder_name = ""
             THEN Returned(<<>>)
        ELSE IF folder_name \notin DOMAIN d.folders THEN Returned(<<>>)
        ELSE LoadFiles(d.folders[folder_name])

\* the identifier suffix of a character-over-time card (codex.py:271)
Suffix == "_OVER_TIME"

\* get_characters_over_time: the over-time cards keyed by base id, the ones
\* of the requested ids only
BaseId(ot_id) == Replace(ot_id, <<Suffix>>, <<>>)

RECURSIVE ReverseMap(_)
ReverseMap(all_over_time) ==
    IF all_over_time = <<>> THEN <<>>
    ELSE LET n == Len(all_over_time)
         IN  DictSet(ReverseMap(SubSeq(all_over_time, 1, n - 1)),
                     BaseId(all_over_time[n].k), all_over_time[n].v)

\* no filtering: every over-time card is returned
FilterIds_all(result, character_ids) == result

RECURSIVE FilterIds(_, _)
FilterIds(result, character_ids) ==
    IF character_ids = <<>> THEN <<>>
    ELSE LET n == Len(character_ids)
             before == FilterIds(result, SubSeq(character_ids, 1, n - 1))
             char_id == character_ids[n]
         IN  IF DictHas(result, char_id)
             THEN DictSet(before, char_id, DictGet(result, char_id))
             ELSE before

get_characters_over_time(d, character_ids) ==
    LET all_over_time == _load_cards_for_type(d, "CHAR_OVERTIME")
    IN  IF ~all_over_time.ok THEN all_over_time
        ELSE Returned(FilterIds(ReverseMap(all_over_time.val), character_ids))

-----------------------------------------------------------------------------
(* The story roots and calls of the codex specification.                   *)

\* all sequences of at most n different elements of S
RECURSIVE Listings(_, _)
Listings(S, n) ==
    IF n = 0 THEN {<<>>}
    ELSE LET shorter == Listings(S, n - 1)
         IN  shorter \cup
             {Append(l, x) : l \in shorter, x \in S}

\* a listing is a directory's: no two files of one name
IsDirectory(files) ==
    \A i, j \in 1..Len(files) : files[i].stem = files[j].stem => i = j

Directories(pool) == {l \in Listings(pool, MaxFiles) : IsDirectory(l)}

FrontMatter(yaml_lines) == <<<<Marker>>>> \o yaml_lines \o <<<<Marker>>>>

\* character cards: with and without front matter, unique-id, names and
\* summary; bodies whose first lines are blank or padded; front matter that
\* is not closed, does not parse, or parses to a scalar
CharTexts ==
    { Text(FrontMatter(<< <<"unique-id: A">>, <<"names: [ m ]">>, <<"summary: ' s '">> >>)
           \o << <<"#", " ", "h">>, <<"b">> >>),
      Text(FrontMatter(<< <<"unique-id: A">> >>)
           \o << <<>>, <<" ", "a", " ">>, <<"b">> >>),
      Text(<< <<" ">>, <<"a", " ", "b", " ">> >>),
      Text(<< <<" ">>, <<>> >>),
      Text(FrontMatter(<< <<"names: [n, m]">>, <<"summary: ''">> >>) \o << <<"a">> >>),
      Text(<< <<Marker>>, <<"unique-id: B">>, <<"a">> >>),
      Text(FrontMatter(<< <<BadYaml>> >>) \o << <<"a">> >>),
      Text(FrontMatter(<< <<"a">> >>) \o << <<"b">> >>) }

Stems == {<<"A">>, <<"B">>, <<"C">>}

CharFiles == [stem : Stems, text : CharTexts]

\* over-time cards: the suffix once, twice, and in front of the base id
OverTimeTexts ==
    { Text(FrontMatter(<< <<"unique-id: A_OVER_TIME">> >>) \o << <<"a">> >>),
      Text(FrontMatter(<< <<"unique-id: A_OVER_TIME_OVER_TIME">>, <<"chapter_state: c">> >>)),
      Text(FrontMatter(<< <<"unique-id: _OVER_TIMEA_OVER_TIME">> >>) \o << <<"b">> >>),
      Text(FrontMatter(<< <<"unique-id: B_OVER_TIME">> >>)),
      Text(<< <<"c">> >>) }

OverTimeStems == {<<"A", Suffix>>, <<"B", Suffix>>, <<"C">>}

OverTimeFiles == [stem : OverTimeStems, text : OverTimeTexts]

\* the ids a caller asks over-time cards for
BaseIds == {<<"A">>, <<"B">>, <<"A", Suffix>>, <<"C">>}

TypeKeys == {"CHAR", "CHAR_OVERTIME", "LOC", "THREAD", "STYLE", "VOICE"}

\* codex/index.yaml: no `types`, empty `types`, and a `types` whose entries
\* are a folder, an empty entry, an entry with no folder and an empty folder
FullTypes ==
       ("CHAR" :> ("folder" :> "characters"))
    @@ ("CHAR_OVERTIME" :> ("folder" :> "over_time"))
    @@ ("LOC" :> [x \in {} |-> ""])
    @@ ("THREAD" :> ("tags" :> "thread"))
    @@ ("STYLE" :> ("folder" :> ""))

IndexDocs ==
    { EmptyMap, ("types" :> EmptyMap), ("types" :> FullTypes) }

NoFolders == [x \in {} |-> <<>>]

\* a file that is not there
NoFile == [exists |-> FALSE, doc |-> EmptyMap]

\* a story root with nothing in it: no codex index and card folders, no
\* prompting.yaml and templates, no beatgen.yaml, no outlines, no model.yaml
\* and no manuscript
EmptyRoot ==
    [index |-> NoFile, folders |-> NoFolders,
     prompting |-> NoFile, templates |-> NoFolders,
     beatgen |-> NoFile, master_outline |-> NoFile, scenes |-> NoFolders,
     model |-> NoFile, manuscript |-> [dirs |-> {}, files |-> EmptyMap]]

\* an environment with no variable set, no client and no request
NoWorld == [env |-> EmptyMap, clients |-> <<>>, requests |-> <<>>]

\* a story root with a codex: index.yaml and the card folders
CodexRoot(doc, folders) ==
    [EmptyRoot EXCEPT !.index = [exists |-> TRUE, doc |-> doc], !.folders = folders]

\* a call that has not started: no locals, nothing read, nothing returned
Ready ==
    /\ pc = "ready"
    /\ frame = EmptyMap
    /\ reads = <<>>
    /\ ret = Returned(<<>>)
    /\ world = NoWorld

InitLoadCards ==
    /\ \E doc \in IndexDocs, type_key \in TypeKeys :
         /\ call = [op |-> "_load_cards_for_type", type_key |-> type_key]
         /\ \/ disk = CodexRoot(doc, NoFolders)
            \/ \E files \in Directories(CharFiles) :
                 disk = CodexRoot(doc, "characters" :> files)
    /\ Ready

InitOverTime ==
    /\ \E ids \in Listings(BaseIds, MaxIds) :
         call = [op |-> "get_characters_over_time", character_ids |-> ids]
    /\ \/ disk = CodexRoot("types" :> FullTypes, NoFolders)
       \/ \E files \in Directories(OverTimeFiles) :
            disk = CodexRoot("types" :> FullTypes, "over_time" :> files)
    /\ Ready

InitCodex == InitLoadCards \/ InitOverTime

LoadCardsForType ==
    /\ pc = "ready"
    /\ call.op = "_load_cards_for_type"
    /\ ret' = _load_cards_for_type(disk, call.type_key)
    /\ pc' = "done"
    /\ UNCHANGED <<world, disk, call, frame, reads>>

GetCharactersOverTime ==
    /\ pc = "ready"
    /\ call.op = "get_characters_over_time"
    /\ ret' = get_characters_over_time(disk, call.character_ids)
    /\ pc' = "done"
    /\ UNCHANGED <<world, disk, call, frame, reads>>

NextCodex == LoadCardsForType \/ GetCharactersOverTime

SpecCodex == InitCodex /\ [][NextCodex]_vars

-----------------------------------------------------------------------------
(* Claims about the Card Store.                                            *)

\* the `types` mapping of the index, the entry of the call's type key and
\* the folder it declares, as the claims speak of them
IndexTypes ==
    IF "types" \in DOMAIN disk.index.doc THEN disk.index.doc["types"] ELSE EmptyMap

HasEntry == call.type_key \in DOMAIN IndexTypes /\ DOMAIN IndexTypes[call.type_key] # {}

DeclaresFolder ==
    /\ HasEntry
    /\ "folder" \in DOMAIN IndexTypes[call.type_key]
    /\ IndexTypes[call.type_key]["folder"] # ""

FolderOnDisk == DeclaresFolder /\ IndexTypes[call.type_key]["folder"] \in DOMAIN disk.folders

LoadDone == pc = "done" /\ call.op = "_load_cards_for_type"

\* C1: with an index that is there, _load_cards_for_type returns the empty
\* mapping, and raises nothing, whenever the index has no entry for the type
\* key, the entry declares no folder, or the declared folder is not on disk.
C1_AbsentYieldsEmpty ==
    (LoadDone /\ disk.index.exists /\ ~FolderOnDisk) => ret = Returned(<<>>)

\* the three cases of C1, the last one with the folder declared and absent
C1_Witness ==
    /\ LoadDone
    /\ DeclaresFolder
    /\ ~FolderOnDisk
    /\ ret = Returned(<<>>)

\* the files of the folder the call loads
LoadedFiles == disk.folders[IndexTypes[call.type_key]["folder"]]

FileMeta(file) == _parse_markdown_card(file.text).meta

FileBody(file) == _parse_markdown_card(file.text).body

\* the file a card of the returned mapping was read from: the last one, in
\* listing order, of its id
SourceFile(files, id) ==
    LET same == {i \in 1..Len(files) : CardId(FileMeta(files[i]), files[i].stem) = id}
    IN  files[CHOOSE i \in same : \A j \in same : j <= i]

HasNonBlankLine(body) ==
    \E i \in 1..Len(SplitLines(body)) : Strip(SplitLines(body)[i]) # <<>>

\* the first line of the body that is not blank, as it stands in the body
FirstNonBlankLine(body) ==
    LET lines == SplitLines(body)
    IN  lines[CHOOSE i \in 1..Len(lines) :
                /\ Strip(lines[i]) # <<>>
                /\ \A j \in 1..(i - 1) : Strip(lines[j]) = <<>>]

\* an explicit summary is kept as given
KeepsExplicitSummary(card, file) ==
    "summary" \in DOMAIN FileMeta(file) =>
        /\ "summary" \in DOMAIN card
        /\ card["summary"] = FileMeta(file)["summary"]

\* C2 as stated: every loaded card keeps its explicit summary, and a card
\* with no summary metadata has the first non-empty body line, verbatim.
C2_SummaryVerbatim ==
    (LoadDone /\ ret.ok) =>
        \A i \in 1..Len(ret.val) :
            LET card == ret.val[i].v
                file == SourceFile(LoadedFiles, ret.val[i].k)
            IN  /\ KeepsExplicitSummary(card, file)
                /\ ("summary" \notin DOMAIN FileMeta(file) /\ HasNonBlankLine(FileBody(file)))
                     => /\ "summary" \in DOMAIN card
                        /\ card["summary"] = FirstNonBlankLine(FileBody(file))

\* C2, amended: every loaded card keeps its explicit summary exactly; a card
\* with no summary metadata has the first non-blank body line with its
\* leading and trailing whitespace stripped, and no summary at all when the
\* body has no non-blank line.
C2_SummaryStripped ==
    (LoadDone /\ ret.ok) =>
        \A i \in 1..Len(ret.val) :
            LET card == ret.val[i].v
                file == SourceFile(LoadedFiles, ret.val[i].k)
            IN  /\ KeepsExplicitSummary(card, file)
                /\ "summary" \notin DOMAIN FileMeta(file) =>
                     IF HasNonBlankLine(FileBody(file))
                     THEN /\ "summary" \in DOMAIN card
                          /\ card["summary"] = Strip(FirstNonBlankLine(FileBody(file)))
                     ELSE "summary" \notin DOMAIN card

\* a load that returned a card with an explicit padded summary and a card
\* whose summary comes from a padded body line
C2_Witness ==
    /\ LoadDone
    /\ ret.ok
    /\ \E i, j \in 1..Len(ret.val) :
         LET f == SourceFile(LoadedFiles, ret.val[i].k)
             g == SourceFile(LoadedFiles, ret.val[j].k)
         IN  /\ "summary" \in DOMAIN FileMeta(f)
             /\ Strip(FileMeta(f)["summary"]) # FileMeta(f)["summary"]
             /\ "summary" \notin DOMAIN FileMeta(g)
             /\ HasNonBlankLine(FileBody(g))
             /\ Strip(FirstNonBlankLine(FileBody(g))) # FirstNonBlankLine(FileBody(g))

OverTimeDone == pc = "done" /\ call.op = "get_characters_over_time"

\* the over-time cards the Card Store loads
LoadedOverTime == _load_cards_for_type(disk, "CHAR_OVERTIME")

Requested == {call.character_ids[i] : i \in 1..Len(call.character_ids)}

\* C3: for every requested base id B and loaded over-time card of id
\* B + "_OVER_TIME", the lookup returns exactly that card under key B.
C3_OverTimeLookup ==
    (OverTimeDone /\ ret.ok) =>
        \A b \in Requested :
            \A i \in 1..Len(LoadedOverTime.val) :
                LoadedOverTime.val[i].k = b \o <<Suffix>> =>
                    /\ DictHas(ret.val, b)
                    /\ DictGet(ret.val, b) = LoadedOverTime.val[i].v

\* the text between the opening "---" line and the next "\n---"
FrontMatterText(text) ==
    LET rest == SubSeq(text, Find(text, <<NL>>) + 2, Len(text))
    IN  SubSeq(rest, 1, Find(rest, <<NL, Marker>>))

\* a card text that opens front matter and does not close it, or whose front
\* matter does not parse, or parses to something that is no mapping
MalformedFrontMatter(text) ==
    /\ StartsWith(text, <<Marker, NL>>)
    /\ \/ Find(SubSeq(text, 3, Len(text)), <<NL, Marker>>) = -1
       \/ yaml_safe_load(FrontMatterText(text)).kind \in {"error", "scalar"}

\* C12: when a card file of the folder has malformed front matter, the load
\* of the type does not fail, and the card of that file is in the mapping,
\* under the file's base name, with no metadata (only body, raw_text and the
\* derived summary).
C12_MalformedDegrades ==
    (LoadDone /\ disk.index.exists /\ FolderOnDisk) =>
        \A i \in 1..Len(LoadedFiles) :
            MalformedFrontMatter(LoadedFiles[i].text) =>
                /\ ret.ok
                /\ DictHas(ret.val, LoadedFiles[i].stem)
                /\ SourceFile(LoadedFiles, LoadedFiles[i].stem) = LoadedFiles[i]
                     => DOMAIN DictGet(ret.val, LoadedFiles[i].stem)
                            \subseteq {"body", "raw_text", "summary"}

-----------------------------------------------------------------------------
(* outline.py: the outline context of a scene.                             *)

\* str(n) for a number n >= 0
Digit == <<"0", "1", "2", "3", "4", "5", "6", "7", "8", "9">>

RECURSIVE IntToStr(_)
IntToStr(n) ==
    IF n < 10 THEN <<Digit[n + 1]>>
    ELSE IntToStr(n \div 10) \o <<Digit[(n % 10) + 1]>>

\* Python's None, beside a text
None == [some |-> FALSE, text |-> <<>>]
Some(text) == [some |-> TRUE, text |-> text]

\* x or default, for an Optional[str] x
OrElse(x, default) == IF x.some /\ x.text # <<>> THEN x.text ELSE default

\* a prefix without the space after the "#"s
HeadingPrefix_bare(level) == [i \in 1..level |-> "#"]

\* "#" * level + " "
HeadingPrefix(level) == [i \in 1..level |-> "#"] \o <<" ">>

\* _extract_first_heading: the text of the first line that starts with the
\* level's prefix, stripped; None when no line does
_extract_first_heading(lines, level) ==
    LET hits == {i \in 1..Len(lines) : StartsWith(lines[i], HeadingPrefix(level))}
        first == CHOOSE i \in hits : \A j \in hits : i <= j
    IN  IF hits = {} THEN None
        ELSE Some(Strip(SubSeq(lines[first], level + 2, Len(lines[first]))))

\* _extract_first_nonempty_line: the first line that is not blank, stripped
_extract_first_nonempty_line(lines) ==
    LET hits == {i \in 1..Len(lines) : Strip(lines[i]) # <<>>}
        first == CHOOSE i \in hits : \A j \in hits : i <= j
    IN  IF hits = {} THEN None ELSE Some(Strip(lines[first]))

\* the loop at outline.py:184-186: how many leading lines start, after
\* lstrip(), with "#"
RECURSIVE LeadingHeadings(_)
LeadingHeadings(lines) ==
    IF lines # <<>> /\ StartsWith(LStrip(Head(lines)), <<"#">>)
    THEN 1 + LeadingHeadings(Tail(lines))
    ELSE 0

\* _extract_scene_summary_from_text
_extract_scene_summary_from_text(text) ==
    LET lines == SplitLines(text)
        i == LeadingHeadings(lines)
    IN  OrElse(_extract_first_nonempty_line(SubSeq(lines, i + 1, Len(lines))), <<>>)

\* no generic beat goal
ContinuePhrase_none == <<>>

\* the generic beat goal (outline.py:263, blocks.py:252)
ContinuePhrase == <<"Continue the story from the current point.">>

\* build_outline_context
build_outline_context(scene_outline, chapter_num) ==
    LET raw_text == scene_outline.raw_text
        lines == SplitLines(raw_text)
        scene_summary == _extract_scene_summary_from_text(raw_text)
    IN  [chapter_title |-> OrElse(_extract_first_heading(lines, 1),
                                  <<"Chapter", " ">> \o IntToStr(chapter_num)),
         scene_title |-> OrElse(_extract_first_heading(lines, 2), <<"Scene">>),
         scene_summary |-> scene_summary,
         previous_scene_title |-> <<>>,
         previous_scene_summary |-> <<>>,
         beat_goal |-> IF scene_summary # <<>> THEN scene_summary ELSE ContinuePhrase,
         tone |-> <<>>]

-----------------------------------------------------------------------------
(* The scene outlines of the outline specification.                        *)

\* lines in one scene outline
MaxLines == 3

\* chapter numbers
MaxChapter == 2

\* the lines scene outlines are written with: blank, headings of level 1
\* and 2 (one with no title, one indented), and body lines
OutlineLines ==
    { <<>>,
      <<" ">>,
      <<"#", " ", "T">>,
      <<"#", " ">>,
      <<"#", "#", " ", "S", " ">>,
      <<" ", "#", " ", "U">>,
      <<"b">>,
      <<" ", "c", " ">> }

RECURSIVE LineSeqs(_)
LineSeqs(n) ==
    IF n = 0 THEN {<<>>}
    ELSE LineSeqs(n - 1) \cup {Append(l, x) : l \in LineSeqs(n - 1), x \in OutlineLines}

InitOutline ==
    /\ \E lines \in LineSeqs(MaxLines), chapter_num \in 1..MaxChapter :
         call = [op |-> "build_outline_context",
                 scene_outline |-> [raw_text |-> Text(lines)],
                 chapter_num |-> chapter_num]
    /\ disk = EmptyRoot
    /\ Ready

BuildOutlineContext ==
    /\ pc = "ready"
    /\ call.op = "build_outline_context"
    /\ ret' = Returned(build_outline_context(call.scene_outline, call.chapter_num))
    /\ pc' = "done"
    /\ UNCHANGED <<world, disk, call, frame, reads>>

NextOutline == BuildOutlineContext

SpecOutline == InitOutline /\ [][NextOutline]_vars

-----------------------------------------------------------------------------
(* Claims about the Outline Reader.                                        *)

OutlineDone == pc = "done" /\ call.op = "build_outline_context"

\* a heading line: after leading whitespace it starts with "#"
IsHeadingLine(line) == StartsWith(LStrip(line), <<"#">>)

\* the lines of the text that are neither blank nor headings
BodyLines(text) ==
    SelectSeq(SplitLines(text), LAMBDA ln : Strip(ln) # <<>> /\ ~IsHeadingLine(ln))

\* C9: scene_summary is the first line of the scene text that is not empty
\* and is no heading line, stripped, and the empty string when there is no
\* such line, blank lines between the headings or before the body or not.
C9_SummarySkipsHeadings ==
    OutlineDone =>
        ret.val.scene_summary =
            IF BodyLines(call.scene_outline.raw_text) = <<>> THEN <<>>
            ELSE Strip(BodyLines(call.scene_outline.raw_text)[1])

\* the lines of the text that are headings of this level: `level` times "#"
\* and a space at the start of the line
HeadingLines(text, level) ==
    SelectSeq(SplitLines(text),
              LAMBDA ln : /\ Len(ln) > level
                          /\ \A i \in 1..level : ln[i] = "#"
                          /\ ln[level + 1] = " ")

\* the text of a heading line of this level
HeadingText(ln, level) == Strip(SubSeq(ln, level + 2, Len(ln)))

\* the text of the first heading of this level, or the fallback when there
\* is no such heading or its text is empty
FirstHeadingOr(text, level, fallback) ==
    IF HeadingLines(text, level) = <<>> THEN fallback
    ELSE IF HeadingText(HeadingLines(text, level)[1], level) = <<>> THEN fallback
    ELSE HeadingText(HeadingLines(text, level)[1], level)

\* C20: chapter_title is the text of the first level-1 heading of the scene
\* text, or "Chapter N" when there is none or it is empty; scene_title is
\* the text of the first level-2 heading, or "Scene" when there is none or
\* it is empty.
C20_TitlesFromFirstHeadings ==
    OutlineDone =>
        /\ ret.val.chapter_title =
             FirstHeadingOr(call.scene_outline.raw_text, 1,
                            <<"Chapter", " ">> \o IntToStr(call.chapter_num))
        /\ ret.val.scene_title =
             FirstHeadingOr(call.scene_outline.raw_text, 2, <<"Scene">>)

\* the first level-1 heading is empty and a later one has text, so the
\* chapter title is "Chapter 2"; the scene title is the level-2 heading's
C20_Witness ==
    /\ OutlineDone
    /\ call.chapter_num = 2
    /\ Len(HeadingLines(call.scene_outline.raw_text, 1)) = 2
    /\ HeadingText(HeadingLines(call.scene_outline.raw_text, 1)[2], 1) = <<"T">>
    /\ ret.val.chapter_title = <<"Chapter", " ", "2">>
    /\ ret.val.scene_title = <<"S">>

\* C21: beat_goal is the scene summary when that is not empty and the
\* phrase "Continue the story from the current point." when it is, so it is
\* never empty.
C21_BeatGoalNeverEmpty ==
    OutlineDone =>
        /\ ret.val.beat_goal # <<>>
        /\ ret.val.beat_goal =
             IF ret.val.scene_summary # <<>> THEN ret.val.scene_summary
             ELSE <<"Continue the story from the current point.">>

\* a scene text of headings and blank lines only: no summary, and the beat
\* goal is the generic phrase
C21_Witness ==
    /\ OutlineDone
    /\ Len(SplitLines(call.scene_outline.raw_text)) = 3
    /\ BodyLines(call.scene_outline.raw_text) = <<>>
    /\ ret.val.scene_summary = <<>>
    /\ ret.val.beat_goal = <<"Continue the story from the current point.">>

-----------------------------------------------------------------------------
(* blocks.py: the prompt blocks of a beat specification.                   *)

\* m.get(k, default)
Get(m, k, default) == IF k \in DOMAIN m THEN m[k] ELSE default

\* m.get(k) or "": the text under k, empty when the key is absent
TextOf(m, k) == Get(m, k, <<>>)

\* a or b or ..., over the keys of one mapping: the first truthy value
RECURSIVE FirstTruthy(_, _)
FirstTruthy(m, keys) ==
    IF keys = <<>> THEN <<>>
    ELSE IF Truthy(m, Head(keys)) THEN m[Head(keys)]
    ELSE FirstTruthy(m, Tail(keys))

\* <lore name="KIND: name"> desc_text </lore>
LoreOpen(kind, name) == <<"<lore name=\"", kind, ":", " ">> \o name \o <<"\">">>

LoreClose == "</lore>"

LoreEntry(kind, name, desc_text) ==
    LoreOpen(kind, name) \o <<NL>> \o desc_text \o <<NL, LoreClose>>

\* every character has an entry, with or without text
HasLore_always(desc_parts) == TRUE

\* a character of which there is something to say (blocks.py:108)
HasLore(desc_parts) == desc_parts # <<>>

\* a character told like a thread: by its chapter state when it has one, by
\* its summary otherwise
CharacterLore_like_thread(char_id, merged) ==
    LET name == Get(merged, "name", char_id)
        base == Get(merged, "base_card", EmptyMap)
        chapter_state == TextOf(merged, "chapter_state")
        summary == FirstTruthy(base, <<"summary", "description", "raw_text">>)
        text == IF chapter_state # <<>> THEN chapter_state ELSE summary
    IN  IF text = <<>> THEN <<>>
        ELSE <<LoreEntry("CHAR", name, Strip(text))>>

\* the character part of _build_codex_block, for one character: its entry,
\* or nothing when there is neither a summary nor a chapter state
CharacterLore(char_id, merged) ==
    LET name == Get(merged, "name", char_id)
        base == Get(merged, "base_card", EmptyMap)
        chapter_state == TextOf(merged, "chapter_state")
        summary == FirstTruthy(base, <<"summary", "description", "raw_text">>)
        desc_parts ==
            (IF summary # <<>> THEN <<Strip(summary)>> ELSE <<>>)
            \o (IF chapter_state # <<>>
                THEN <<<<"In this chapter:", " ">> \o Strip(chapter_state)>>
                ELSE <<>>)
    IN  IF ~HasLore(desc_parts) THEN <<>>
        ELSE <<LoreEntry("CHAR", name, Join(<<NL>>, desc_parts))>>

\* the location part, for one location
LocationLore(loc_id, loc) ==
    LET name == Get(loc, "name", loc_id)
        summary == FirstTruthy(loc, <<"summary", "description", "raw_text">>)
    IN  IF summary = <<>> THEN <<>>
        ELSE <<LoreEntry("LOC", name, Strip(summary))>>

\* the thread part, for one thread
ThreadLore(thread_id, thread) ==
    LET name == Get(thread, "name", thread_id)
        text == FirstTruthy(thread, <<"chapter_state", "summary">>)
    IN  IF text = <<>> THEN <<>>
        ELSE <<LoreEntry("THREAD", name, Strip(text))>>

\* the entries of one category, in the mapping's order
RECURSIVE LoreLines(_, _)
LoreLines(kind, entities) ==
    IF entities = <<>> THEN <<>>
    ELSE LET e == Head(entities)
         IN  (CASE kind = "CHAR" -> CharacterLore(e.k, e.v)
                [] kind = "LOC" -> LocationLore(e.k, e.v)
                [] OTHER -> ThreadLore(e.k, e.v))
             \o LoreLines(kind, Tail(entities))

\* _build_codex_block
_build_codex_block(beat_spec) ==
    LET lines == LoreLines("CHAR", Get(beat_spec, "characters", <<>>))
                 \o LoreLines("LOC", Get(beat_spec, "locations", <<>>))
                 \o LoreLines("THREAD", Get(beat_spec, "threads", <<>>))
    IN  Strip(Join(<<NL, NL>>, lines))

\* the opening tag of a scene grouping, up to its title
SceneOpen == "    <scene title=\""

\* the previous scene is shown whatever its summary
HasPreviousScene_always(prev_scene_summary) == TRUE

\* the previous scene is shown (blocks.py:197)
HasPreviousScene(prev_scene_summary) == prev_scene_summary # <<>>

\* _build_story_so_far_block
_build_story_so_far_block(beat_spec) ==
    LET ids == Get(beat_spec, "ids", EmptyMap)
        outline == Get(beat_spec, "outline", EmptyMap)
        chapter_num == Get(ids, "chapter_num", 1)
        scene_num == Get(ids, "scene_num", 1)
        chapter_title == IF Truthy(outline, "chapter_title") THEN outline["chapter_title"]
                         ELSE <<"Chapter", " ">> \o IntToStr(chapter_num)
        scene_title == IF Truthy(outline, "scene_title") THEN outline["scene_title"]
                       ELSE <<"Scene", " ">> \o IntToStr(scene_num)
        scene_summary == Strip(TextOf(outline, "scene_summary"))
        prev_scene_title == IF Truthy(outline, "previous_scene_title")
                            THEN outline["previous_scene_title"]
                            ELSE <<"Previous Scene">>
        prev_scene_summary == Strip(TextOf(outline, "previous_scene_summary"))
        prev_scene_num == IF scene_num > 1 THEN scene_num - 1
                          ELSE IF scene_num - 1 > 0 THEN scene_num - 1 ELSE 0
        lines ==
            << <<"<act number=\"1\" title=\"Novel\">">>,
               <<"  <chapter title=\"">> \o chapter_title \o <<"\" number=\"">>
                   \o IntToStr(chapter_num) \o <<"\">">> >>
            \o (IF HasPreviousScene(prev_scene_summary)
                THEN << <<SceneOpen>> \o prev_scene_title \o <<"\" number=\"">>
                            \o IntToStr(prev_scene_num) \o <<"\">">>,
                        <<"      ">> \o prev_scene_summary,
                        <<"    </scene>">> >>
                ELSE <<>>)
            \o << <<SceneOpen>> \o scene_title \o <<"\" number=\"">>
                      \o IntToStr(scene_num) \o <<"\">">> >>
            \o (IF scene_summary # <<>> THEN << <<"      ">> \o scene_summary >> ELSE <<>>)
            \o << <<"    </scene>">>, <<"  </chapter>">>, <<"</act>">> >>
    IN  Join(<<NL>>, lines)

\* the narrative mode of every POV (outline.py:323, blocks.py:249)
ThirdPersonLimited == <<"third person limited">>

\* _build_instructions_block
\* a tone taken from the outline context alone
ToneOf_outline(outline, style) == TextOf(outline, "tone")

\* outline.get("tone") or style.get("default_tone")
ToneOf(outline, style) ==
    IF Truthy(outline, "tone") THEN outline["tone"]
    ELSE TextOf(style, "default_tone")

_build_instructions_block(beat_spec) ==
    LET pov == Get(beat_spec, "pov", EmptyMap)
        outline == Get(beat_spec, "outline", EmptyMap)
        style == Get(beat_spec, "style", EmptyMap)
        pov_mode == Get(pov, "mode", ThirdPersonLimited)
        pov_name == TextOf(pov, "name")
        beat_goal == Strip(IF Truthy(outline, "beat_goal") THEN outline["beat_goal"]
                           ELSE ContinuePhrase)
        tone_text == Strip(ToneOf(outline, style))
        lines ==
            << IF pov_name # <<>>
               THEN <<"<pointOfView type=\"">> \o pov_mode \o <<"\" focus=\"">>
                        \o pov_name \o <<"\"/>">>
               ELSE <<"<pointOfView type=\"">> \o pov_mode \o <<"\"/>">>,
               <<>>,
               <<"<beatGoal>">>,
               <<" ", " ">> \o beat_goal,
               <<"</beatGoal>">> >>
            \o (IF tone_text # <<>>
                THEN << <<>>, <<"<tone>">>, <<" ", " ">> \o tone_text, <<"</tone>">> >>
                ELSE <<>>)
    IN  Join(<<NL>>, lines)

\* the target word count when the configuration gives none (blocks.py:49)
DefaultTargetWords == 400

\* the four blocks with the default target word count, whatever the
\* generator configuration says
build_blocks_from_beat_spec_default(beat_spec) ==
    << [k |-> "CODEX_BLOCK", v |-> _build_codex_block(beat_spec)],
       [k |-> "STORY_SO_FAR_BLOCK", v |-> _build_story_so_far_block(beat_spec)],
       [k |-> "INSTRUCTIONS_BLOCK", v |-> _build_instructions_block(beat_spec)],
       [k |-> "TARGET_WORDS", v |-> IntToStr(DefaultTargetWords)] >>

\* build_blocks_from_beat_spec: the four blocks, in the order the dict
\* literal lists them
build_blocks_from_beat_spec(beat_spec) ==
    LET generator_cfg == Get(beat_spec, "generator_config", EmptyMap)
        prompt_params == Get(generator_cfg, "prompt_parameters", EmptyMap)
        target_words == IntToStr(Get(prompt_params, "target_words", DefaultTargetWords))
    IN  << [k |-> "CODEX_BLOCK", v |-> _build_codex_block(beat_spec)],
           [k |-> "STORY_SO_FAR_BLOCK", v |-> _build_story_so_far_block(beat_spec)],
           [k |-> "INSTRUCTIONS_BLOCK", v |-> _build_instructions_block(beat_spec)],
           [k |-> "TARGET_WORDS", v |-> target_words] >>

-----------------------------------------------------------------------------
(* beat_spec.py: merging base and over-time character cards.               *)

\* a merge that keeps only the characters that have an over-time card
RECURSIVE _merge_character_cards_with_over_time_known(_, _)
_merge_character_cards_with_over_time_known(characters, characters_over_time) ==
    IF characters = <<>> THEN <<>>
    ELSE LET n == Len(characters)
             char_id == characters[n].k
             rest == _merge_character_cards_with_over_time_known(
                         SubSeq(characters, 1, n - 1), characters_over_time)
         IN  IF DictHas(characters_over_time, char_id)
             THEN DictSet(rest, char_id,
                          [id |-> char_id,
                           name |-> Get(characters[n].v, "name", char_id),
                           base_card |-> characters[n].v,
                           over_time |-> DictGet(characters_over_time, char_id)])
             ELSE rest

\* _merge_character_cards_with_over_time: one merged view per base card, in
\* the base cards' order; chapter_state is the over-time card's, None (no
\* key here) when it has none
RECURSIVE _merge_character_cards_with_over_time(_, _)
_merge_character_cards_with_over_time(characters, characters_over_time) ==
    IF characters = <<>> THEN <<>>
    ELSE LET n == Len(characters)
             char_id == characters[n].k
             base_card == characters[n].v
             ot_card == IF DictHas(characters_over_time, char_id)
                        THEN DictGet(characters_over_time, char_id)
                        ELSE EmptyMap
             view == [id |-> char_id,
                      name |-> Get(base_card, "name", char_id),
                      base_card |-> base_card,
                      over_time |-> ot_card]
         IN  DictSet(_merge_character_cards_with_over_time(
                         SubSeq(characters, 1, n - 1), characters_over_time),
                     char_id,
                     IF "chapter_state" \in DOMAIN ot_card
                     THEN MapSet(view, "chapter_state", ot_card["chapter_state"])
                     ELSE view)

-----------------------------------------------------------------------------
(* The beat specifications of the blocks specification.                    *)

\* characters, locations and threads in one beat specification
MaxEntities == 2

\* scene numbers
MaxScene == 2

\* the cards lore is rendered from: no text at all, only a body, only
\* raw_text (blank or not), summary, description and chapter state alone
\* and together, blank summaries and chapter states, a name
LoreCards ==
    { EmptyMap,
      ("body" :> <<"b">>),
      ("raw_text" :> <<"r">>),
      ("raw_text" :> <<" ", NL>>),
      ("summary" :> <<"s">>) @@ ("raw_text" :> <<"r">>),
      ("summary" :> <<>>) @@ ("description" :> <<"d">>),
      ("description" :> <<" ", "d">>),
      ("chapter_state" :> <<"c", " ">>),
      ("summary" :> <<"s">>) @@ ("chapter_state" :> <<"c">>),
      ("summary" :> <<" ", "s", " ">>) @@ ("name" :> <<"n">>),
      ("summary" :> <<" ">>),
      ("chapter_state" :> <<" ">>) }

Categories == {"CHAR", "LOC", "THREAD"}

Entities == [cat : Categories, card : LoreCards]

\* the card of the i-th entity: its name, when it has one, ends with i
EntityId(i) == <<"E">> \o IntToStr(i)

EntityCard(ents, i) ==
    IF "name" \in DOMAIN ents[i].card
    THEN MapSet(ents[i].card, "name", ents[i].card["name"] \o IntToStr(i))
    ELSE ents[i].card

\* m without the key k
Without(m, k) == [x \in DOMAIN m \ {k} |-> m[x]]

\* the cards of one category, keyed by id, in the entities' order
RECURSIVE CardsOf(_, _, _)
CardsOf(ents, cat, n) ==
    IF n = 0 THEN <<>>
    ELSE IF ents[n].cat = cat
         THEN Append(CardsOf(ents, cat, n - 1), [k |-> EntityId(n), v |-> EntityCard(ents, n)])
         ELSE CardsOf(ents, cat, n - 1)

\* base cards carry no chapter state: it comes from the over-time card
BaseCards(cards) ==
    [i \in 1..Len(cards) |-> [k |-> cards[i].k, v |-> Without(cards[i].v, "chapter_state")]]

OverTimeCards(cards) ==
    LET with == SelectSeq(cards, LAMBDA e : "chapter_state" \in DOMAIN e.v)
    IN  [i \in 1..Len(with) |->
            [k |-> with[i].k, v |-> ("chapter_state" :> with[i].v["chapter_state"])]]

\* the outline context of a scene "# T / ## S / u"
PlainOutline ==
    build_outline_context([raw_text |-> Text(<< <<"#", " ", "T">>, <<"#", "#", " ", "S">>, <<"u">> >>)], 1)

PlainIds == [chapter_num |-> 1, scene_num |-> 1]

LoreSpec(ents) ==
    LET chars == CardsOf(ents, "CHAR", Len(ents))
    IN  [ids |-> PlainIds,
         outline |-> PlainOutline,
         characters |-> _merge_character_cards_with_over_time(BaseCards(chars), OverTimeCards(chars)),
         locations |-> CardsOf(ents, "LOC", Len(ents)),
         threads |-> CardsOf(ents, "THREAD", Len(ents)),
         generator_config |-> EmptyMap]

\* m with m[k] = x.text when x is not None
OptSet(m, k, x) == IF x.some THEN MapSet(m, k, x.text) ELSE m

\* outline contexts: each title and summary absent, empty, blank or text
StoryOutlines ==
    { OptSet(OptSet(OptSet(OptSet(OptSet(EmptyMap,
          "chapter_title", ct), "scene_title", st), "scene_summary", ss),
          "previous_scene_title", pt), "previous_scene_summary", ps) :
        ct \in {None, Some(<<>>), Some(<<"T">>)},
        st \in {None, Some(<<"S">>)},
        ss \in {Some(<<>>), Some(<<" ">>), Some(<<"u">>)},
        pt \in {None, Some(<<"P">>)},
        ps \in {None, Some(<<>>), Some(<<" ">>), Some(<<"p">>), Some(<<" ", "p", NL>>)} }

StorySpec(outline, chapter_num, scene_num) ==
    [ids |-> [chapter_num |-> chapter_num, scene_num |-> scene_num],
     outline |-> outline,
     characters |-> <<>>,
     locations |-> <<>>,
     threads |-> <<>>,
     generator_config |-> EmptyMap]

InitLore ==
    /\ \E ents \in Listings(Entities, MaxEntities) :
         call = [op |-> "build_blocks_from_beat_spec", beat_spec |-> LoreSpec(ents)]
    /\ disk = EmptyRoot
    /\ Ready

InitStory ==
    /\ \E outline \in StoryOutlines, chapter_num \in 1..MaxChapter, scene_num \in 1..MaxScene :
         call = [op |-> "build_blocks_from_beat_spec",
                 beat_spec |-> StorySpec(outline, chapter_num, scene_num)]
    /\ disk = EmptyRoot
    /\ Ready

\* the POV of a beat specification: none, one with a name, one whose name
\* is empty
Povs ==
    { None,
      Some([id |-> <<"A">>, name |-> <<"m">>, mode |-> ThirdPersonLimited]),
      Some([id |-> <<"A">>, name |-> <<>>, mode |-> ThirdPersonLimited]) }

\* outline contexts with a beat goal and a tone, each absent, empty, blank
\* or text
GoalOutlines ==
    { OptSet(OptSet(("scene_summary" :> <<"u">>), "beat_goal", goal), "tone", tone) :
        goal \in {None, Some(<<>>), Some(<<" ">>), Some(<<"g">>), Some(<<" ", "g">>)},
        tone \in {None, Some(<<>>), Some(<<" ">>), Some(<<"o">>)} }

\* the style of a beat specification: none, one without a default tone, one
\* with a default tone, one whose default tone is blank
Styles ==
    { None, Some(EmptyMap), Some(("default_tone" :> <<"t">>)),
      Some(("default_tone" :> <<" ">>)) }

\* a custom target word count
CustomTargetWords == 250

\* generator configurations: no prompt parameters, prompt parameters
\* without a target word count, and a target word count
GeneratorConfigs ==
    { EmptyMap,
      ("prompt_parameters" :> EmptyMap),
      ("prompt_parameters" :> ("target_words" :> CustomTargetWords)) }

InstructionSpec(pov, outline, style, generator_config) ==
    OptSet(OptSet(OptSet(
        [ids |-> PlainIds,
         outline |-> outline,
         characters |-> <<>>,
         locations |-> <<>>,
         threads |-> <<>>],
        "pov", pov), "style", style), "generator_config", generator_config)

InitInstructions ==
    /\ \E pov \in Povs, outline \in GoalOutlines, style \in Styles,
          generator_config \in {None} \cup {Some(g) : g \in GeneratorConfigs} :
         call = [op |-> "build_blocks_from_beat_spec",
                 beat_spec |-> InstructionSpec(pov, outline, style, generator_config)]
    /\ disk = EmptyRoot
    /\ Ready

InitBlocks == InitLore \/ InitStory \/ InitInstructions

BuildBlocks ==
    /\ pc = "ready"
    /\ call.op = "build_blocks_from_beat_spec"
    /\ ret' = Returned(build_blocks_from_beat_spec(call.beat_spec))
    /\ pc' = "done"
    /\ UNCHANGED <<world, disk, call, frame, reads>>

NextBlocks == BuildBlocks

SpecBlocks == InitBlocks /\ [][NextBlocks]_vars

-----------------------------------------------------------------------------
(* Claims about the Block Renderer.                                        *)

BlocksDone == pc = "done" /\ call.op = "build_blocks_from_beat_spec"

CodexBlock == DictGet(ret.val, "CODEX_BLOCK")

StorySoFarBlock == DictGet(ret.val, "STORY_SO_FAR_BLOCK")

\* how many times sub occurs in s
RECURSIVE Count(_, _)
Count(s, sub) ==
    LET at == Find(s, sub)
    IN  IF at = -1 THEN 0
        ELSE 1 + Count(SubSeq(s, at + Len(sub) + 1, Len(s)), sub)

\* the block has a lore entry of this kind under this name
Emitted(kind, name) == Find(CodexBlock, LoreOpen(kind, name)) # -1

Absent(m, k) == ~Truthy(m, k)

EntitiesOf(key) == call.beat_spec[key]

\* C4 as stated: in each category, an entity with no summary, no
\* description and no chapter-state text gets no lore entry, whatever else
\* (raw_text, body) it carries.
C4_OmitsWithoutSummaryAndState ==
    BlocksDone =>
        /\ \A i \in 1..Len(EntitiesOf("characters")) :
             LET e == EntitiesOf("characters")[i].v
             IN  (/\ Absent(e.base_card, "summary")
                  /\ Absent(e.base_card, "description")
                  /\ Absent(e, "chapter_state"))
                 => ~Emitted("CHAR", e.name)
        /\ \A key \in {"locations", "threads"} :
             \A i \in 1..Len(EntitiesOf(key)) :
                LET e == EntitiesOf(key)[i]
                IN  (/\ Absent(e.v, "summary")
                     /\ Absent(e.v, "description")
                     /\ Absent(e.v, "chapter_state"))
                    => ~Emitted(IF key = "locations" THEN "LOC" ELSE "THREAD",
                                Get(e.v, "name", e.k))

\* C4, amended: a character gets no lore entry when its base card has no
\* summary, description or raw_text and it has no chapter-state text; a
\* location when it has no summary, description or raw_text; a thread when
\* it has no chapter-state text and no summary.  raw_text alone gives a
\* character or a location an entry.
C4_OmitsWithoutAnyText ==
    BlocksDone =>
        /\ \A i \in 1..Len(EntitiesOf("characters")) :
             LET e == EntitiesOf("characters")[i].v
             IN  (/\ Absent(e.base_card, "summary")
                  /\ Absent(e.base_card, "description")
                  /\ Absent(e.base_card, "raw_text")
                  /\ Absent(e, "chapter_state"))
                 => ~Emitted("CHAR", e.name)
        /\ \A i \in 1..Len(EntitiesOf("locations")) :
             LET e == EntitiesOf("locations")[i]
             IN  (/\ Absent(e.v, "summary")
                  /\ Absent(e.v, "description")
                  /\ Absent(e.v, "raw_text"))
                 => ~Emitted("LOC", Get(e.v, "name", e.k))
        /\ \A i \in 1..Len(EntitiesOf("threads")) :
             LET e == EntitiesOf("threads")[i]
             IN  (/\ Absent(e.v, "summary")
                  /\ Absent(e.v, "chapter_state"))
                 => ~Emitted("THREAD", Get(e.v, "name", e.k))

\* a block with the entry of one entity and none for a character that
\* carries a body and nothing else
C4_Witness ==
    /\ BlocksDone
    /\ Count(CodexBlock, <<LoreClose>>) = 1
    /\ \E i \in 1..Len(EntitiesOf("characters")) :
         LET e == EntitiesOf("characters")[i].v
         IN  /\ DOMAIN e.base_card = {"body"}
             /\ Absent(e, "chapter_state")
             /\ ~Emitted("CHAR", e.name)

\* the text bodies of the lore entries of a block, in the block's order: what
\* stands between the line of an opening tag and the line of its closing tag
RECURSIVE LoreBodies(_)
LoreBodies(block) ==
    LET at == Find(block, <<"\">", NL>>)
        rest == SubSeq(block, at + 3, Len(block))
        end == Find(rest, <<NL, LoreClose>>)
    IN  IF at = -1 \/ end = -1 THEN <<>>
        ELSE <<SubSeq(rest, 1, end)>> \o LoreBodies(SubSeq(rest, end + 3, Len(rest)))

\* C18: every lore entry of the codex block has a text body that is not
\* empty and not only whitespace; an entity whose text is empty after
\* stripping has no entry.
C18_NoEmptyLoreBody ==
    BlocksDone =>
        \A i \in 1..Len(LoreBodies(CodexBlock)) : Strip(LoreBodies(CodexBlock)[i]) # <<>>

\* the text body of the lore entry of this kind under this name
EntryBody(kind, name) ==
    LET open == LoreOpen(kind, name) \o <<NL>>
        rest == SubSeq(CodexBlock, Find(CodexBlock, open) + Len(open) + 1, Len(CodexBlock))
    IN  SubSeq(rest, 1, Find(rest, <<NL, LoreClose>>))

\* the summary or description of a card, stripped
SummaryText(card) == Strip(FirstTruthy(card, <<"summary", "description">>))

HasSummary(card) == ~Absent(card, "summary") \/ ~Absent(card, "description")

Contains(text, part) == Find(text, part) # -1

\* C19 as stated: in each category, an entity with a summary or description
\* and with chapter-state text has a lore entry that contains both texts.
C19_BothTextsInEveryCategory ==
    BlocksDone =>
        /\ \A i \in 1..Len(EntitiesOf("characters")) :
             LET e == EntitiesOf("characters")[i].v
             IN  (HasSummary(e.base_card) /\ ~Absent(e, "chapter_state"))
                 => /\ Emitted("CHAR", e.name)
                    /\ Contains(EntryBody("CHAR", e.name), SummaryText(e.base_card))
                    /\ Contains(EntryBody("CHAR", e.name), Strip(e.chapter_state))
        /\ \A key \in {"locations", "threads"} :
             \A i \in 1..Len(EntitiesOf(key)) :
                LET e == EntitiesOf(key)[i]
                    kind == IF key = "locations" THEN "LOC" ELSE "THREAD"
                    name == Get(e.v, "name", e.k)
                IN  (HasSummary(e.v) /\ ~Absent(e.v, "chapter_state"))
                    => /\ Emitted(kind, name)
                       /\ Contains(EntryBody(kind, name), SummaryText(e.v))
                       /\ Contains(EntryBody(kind, name), Strip(e.v["chapter_state"]))

\* C19 as the code has it: the entry of a character with a summary or
\* description and with chapter-state text is the stripped summary, then a
\* line "In this chapter: " with the stripped state; the entry of a location
\* with a summary or description is that text alone, whatever chapter state
\* the card carries; the entry of a thread with a summary and chapter-state
\* text is the stripped chapter state alone.
C19_OnlyCharactersCombine ==
    BlocksDone =>
        /\ \A i \in 1..Len(EntitiesOf("characters")) :
             LET e == EntitiesOf("characters")[i].v
             IN  (HasSummary(e.base_card) /\ ~Absent(e, "chapter_state"))
                 => /\ Emitted("CHAR", e.name)
                    /\ EntryBody("CHAR", e.name) =
                         SummaryText(e.base_card) \o <<NL, "In this chapter:", " ">>
                             \o Strip(e.chapter_state)
        /\ \A i \in 1..Len(EntitiesOf("locations")) :
             LET e == EntitiesOf("locations")[i]
                 name == Get(e.v, "name", e.k)
             IN  HasSummary(e.v)
                 => /\ Emitted("LOC", name)
                    /\ EntryBody("LOC", name) = SummaryText(e.v)
        /\ \A i \in 1..Len(EntitiesOf("threads")) :
             LET e == EntitiesOf("threads")[i]
                 name == Get(e.v, "name", e.k)
             IN  (~Absent(e.v, "summary") /\ ~Absent(e.v, "chapter_state"))
                 => /\ Emitted("THREAD", name)
                    /\ EntryBody("THREAD", name) = Strip(e.v["chapter_state"])

\* a character and a thread that both have a summary and a chapter state: the
\* character's entry has both texts and the thread's the chapter state only
C19_Witness ==
    /\ BlocksDone
    /\ \E i \in 1..Len(EntitiesOf("characters")) :
         LET e == EntitiesOf("characters")[i].v
         IN  /\ HasSummary(e.base_card) /\ ~Absent(e, "chapter_state")
             /\ Contains(EntryBody("CHAR", e.name), <<"s", NL, "In this chapter:", " ", "c">>)
    /\ \E i \in 1..Len(EntitiesOf("threads")) :
         LET e == EntitiesOf("threads")[i]
         IN  /\ HasSummary(e.v) /\ ~Absent(e.v, "chapter_state")
             /\ EntryBody("THREAD", Get(e.v, "name", e.k)) = <<"c">>

PreviousSummary == TextOf(call.beat_spec.outline, "previous_scene_summary")

SceneGroupings == Count(StorySoFarBlock, <<SceneOpen>>)

\* C5 as stated: two scene groupings (previous and current) when the
\* previous_scene_summary is non-empty, and the current one alone otherwise.
C5_PreviousIffNonEmpty ==
    BlocksDone => SceneGroupings = IF PreviousSummary # <<>> THEN 2 ELSE 1

\* C5, amended: two scene groupings when the previous_scene_summary has
\* text other than whitespace, the previous one first; the current one
\* alone otherwise.
C5_PreviousIffNonBlank ==
    BlocksDone =>
        /\ SceneGroupings = IF Strip(PreviousSummary) # <<>> THEN 2 ELSE 1
        /\ Strip(PreviousSummary) # <<>> =>
             Find(StorySoFarBlock, <<"      ">> \o Strip(PreviousSummary) \o <<NL, "    </scene>", NL, SceneOpen>>) # -1

\* a block with a previous-scene grouping
C5_Witness ==
    /\ BlocksDone
    /\ Strip(PreviousSummary) # <<>>
    /\ SceneGroupings = 2

-----------------------------------------------------------------------------
(* prompts.py: templates and the prompting configuration.                  *)
(* A template is a text over the tokens "{{" and "}}", key names and other *)
(* characters; the placeholder of a key is the three tokens "{{" key "}}". *)

\* the key alone, without its braces
Placeholder_bare(key) == <<key>>

\* f"{{{{{key}}}}}" (prompts.py:93)
Placeholder(key) == <<"{{", key, "}}">>

\* the loop of _render_template_file: for each key of blocks.items(), in
\* order, str.replace on the text rendered so far
RECURSIVE Substituted(_, _)
Substituted(raw_text, blocks) ==
    IF blocks = <<>> THEN raw_text
    ELSE LET n == Len(blocks)
         IN  Replace(Substituted(raw_text, SubSeq(blocks, 1, n - 1)),
                     Placeholder(blocks[n].k), blocks[n].v)

\* _render_template_file: read_text() raises for a file that is not there
_render_template_file(d, template_path, blocks) ==
    IF template_path \notin DOMAIN d.templates THEN Raised("FileNotFoundError")
    ELSE Returned(Substituted(d.templates[template_path], blocks))

\* _slot_to_filename
_slot_to_filename(slot) ==
    CASE slot = "system" -> "system_message.txt"
      [] slot = "user" -> "user.txt"
      [] slot = "user2" -> "user_2.txt"
      [] OTHER -> slot \o ".txt"

\* prompts_root / filename
TemplatePath(template_set, filename) == [set |-> template_set, file |-> filename]

\* the action keys of the model, in the order sorted() puts them
KeyOrder == <<"ACTIONS_MAKE_PRESENT_TENSE", "ACTIONS_WRITE_BEAT", "UNKNOWN">>

\* sorted(keys)
sorted(keys) == SelectSeq(KeyOrder, LAMBDA k : k \in keys)

\* ", ".join(sorted(actions_cfg.keys())), with no key at all
AvailableActions_none(actions_cfg) == <<>>

\* ", ".join(sorted(actions_cfg.keys())) (prompts.py:169)
AvailableActions(actions_cfg) ==
    LET keys == sorted(DOMAIN actions_cfg)
    IN  Join(<<",", " ">>, [i \in 1..Len(keys) |-> <<keys[i]>>])

\* the message of the KeyError for an unknown action (prompts.py:170-173)
UnknownActionMessage(action_key, actions_cfg) ==
    <<"Action ", "'", action_key, "'", " not found in prompting.yaml. ",
      "Available actions: ">> \o AvailableActions(actions_cfg)

\* prompting_cfg.get("actions", {})
ActionsCfg(d) == Get(d.prompting.doc, "actions", EmptyMap)

\* no slot is required
IsRequired_never(slot_def) == FALSE

\* bool(slot_def.get("required", False)) (prompts.py:185)
IsRequired(slot_def) == Get(slot_def, "required", FALSE)

\* a secondary text that is given and not empty
HasSecondMessage_unstripped(user2) == user2.some /\ user2.text # <<>>

\* user2 is not None and user2.strip() (prompts.py:242)
HasSecondMessage(user2) == user2.some /\ Strip(user2.text) # <<>>

\* {"role": role, "content": content}
Message(role, content) == [role |-> role, content |-> content]

\* build_messages_from_prompts
build_messages_from_prompts(system, user, user2) ==
    LET messages == <<Message("system", system), Message("user", user)>>
    IN  IF HasSecondMessage(user2)
        THEN Append(messages, Message("user", user2.text))
        ELSE messages

-----------------------------------------------------------------------------
(* The story roots and calls of the prompts specification.                 *)

\* tokens in one template
MaxTemplateLen == 4

\* slots in one action configuration
MaxSlots == 2

\* what templates are written with: the braces, two key names and a letter
TemplateTokens == {"{{", "}}", "A", "B", "x"}

RECURSIVE Templates(_)
Templates(n) ==
    IF n = 0 THEN {<<>>}
    ELSE Templates(n - 1) \cup {Append(t, x) : t \in Templates(n - 1), x \in TemplateTokens}

\* block values: plain text, and text that spells a placeholder
BlockValues == {<<"y">>, <<"{{", "A", "}}">>, <<"{{", "B", "}}">>}

\* blocks mappings over the keys A and B, in both orders
BlockMaps ==
    {<<>>}
    \cup {<<[k |-> key, v |-> val]>> : key \in {"A", "B"}, val \in BlockValues}
    \cup {<<[k |-> "A", v |-> a], [k |-> "B", v |-> b]>> : a \in BlockValues, b \in BlockValues}
    \cup {<<[k |-> "B", v |-> b], [k |-> "A", v |-> a]>> : a \in BlockValues, b \in BlockValues}

\* the template set of the beat action
BeatSet == "nc/beat"

\* a story root with one template file
TemplateRoot(template_path, text) ==
    [EmptyRoot EXCEPT !.templates = (template_path :> text)]

InitRenderTemplate ==
    /\ \E blocks \in BlockMaps :
         /\ call = [op |-> "_render_template_file",
                    template_path |-> TemplatePath(BeatSet, "user.txt"),
                    blocks |-> blocks]
         /\ \/ disk = EmptyRoot
            \/ \E text \in Templates(MaxTemplateLen) :
                 disk = TemplateRoot(TemplatePath(BeatSet, "user.txt"), text)
    /\ Ready

\* slot definitions: a slot name, and `required` true, false or not given
SlotNames == {"system", "user", "user2"}

SlotDefs ==
    {("slot" :> name) : name \in SlotNames}
    \cup {("slot" :> name) @@ ("required" :> r) : name \in SlotNames, r \in BOOLEAN}

RECURSIVE SlotLists(_)
SlotLists(n) ==
    IF n = 0 THEN {<<>>}
    ELSE SlotLists(n - 1) \cup {Append(l, x) : l \in SlotLists(n - 1), x \in SlotDefs}

\* action configurations: a template set, with and without `slots`
ActionCfgs ==
    {("template_set" :> BeatSet)}
    \cup {[template_set |-> BeatSet, slots |-> slots] : slots \in SlotLists(MaxSlots)}

\* prompting.yaml: no `actions`, or the beat action with or without a second
\* action beside it
PromptingDocs ==
    {EmptyMap}
    \cup {("actions" :> ("ACTIONS_WRITE_BEAT" :> cfg)) : cfg \in ActionCfgs}
    \cup {("actions" :> (("ACTIONS_WRITE_BEAT" :> cfg)
                         @@ ("ACTIONS_MAKE_PRESENT_TENSE" :> ("template_set" :> "nc/tense")))) :
            cfg \in ActionCfgs}

\* the template files of the beat set that are on disk
TemplateFiles ==
    {[p \in {TemplatePath(BeatSet, _slot_to_filename(name)) : name \in present} |->
         <<p.file, ":", " ", "{{", "TARGET_WORDS", "}}">>] :
       present \in SUBSET SlotNames}

\* the blocks the action is rendered with
ActionBlocks == <<[k |-> "TARGET_WORDS", v |-> <<"4", "0", "0">>]>>

InitRenderAction ==
    /\ \E action_key \in {"ACTIONS_WRITE_BEAT", "UNKNOWN"} :
         call = [op |-> "render_prompts_for_action",
                 action_key |-> action_key,
                 blocks |-> ActionBlocks]
    /\ \/ disk = EmptyRoot
       \/ \E doc \in PromptingDocs, files \in TemplateFiles :
            disk = [EmptyRoot EXCEPT !.prompting = [exists |-> TRUE, doc |-> doc],
                                     !.templates = files]
    /\ Ready

\* prompt texts: empty, blank, and with text
PromptTexts == {<<>>, <<" ">>, <<NL>>, <<"t">>, <<" ", "t", NL>>}

InitBuildMessages ==
    /\ \E system \in PromptTexts, user \in PromptTexts,
          user2 \in {None} \cup {Some(t) : t \in PromptTexts} :
         call = [op |-> "build_messages_from_prompts",
                 system |-> system, user |-> user, user2 |-> user2]
    /\ disk = EmptyRoot
    /\ Ready

InitPrompts == InitRenderTemplate \/ InitRenderAction \/ InitBuildMessages

\* _render_template_file
RenderTemplateFile ==
    /\ pc = "ready"
    /\ call.op = "_render_template_file"
    /\ ret' = _render_template_file(disk, call.template_path, call.blocks)
    /\ reads' = IF call.template_path \in DOMAIN disk.templates
                THEN Append(reads, call.template_path)
                ELSE reads
    /\ pc' = "done"
    /\ UNCHANGED <<world, disk, call, frame>>

\* render_prompts_for_action up to its loop (prompts.py:164-179): the
\* configuration is loaded and the action looked up
LookupAction ==
    /\ pc = "ready"
    /\ call.op = "render_prompts_for_action"
    /\ IF ~disk.prompting.exists
       THEN /\ ret' = Raised("FileNotFoundError")
            /\ pc' = "done"
            /\ UNCHANGED frame
       ELSE IF call.action_key \notin DOMAIN ActionsCfg(disk)
       THEN /\ ret' = RaisedWith("KeyError",
                                 UnknownActionMessage(call.action_key, ActionsCfg(disk)))
            /\ pc' = "done"
            /\ UNCHANGED frame
       ELSE LET action_cfg == ActionsCfg(disk)[call.action_key]
            IN  /\ frame' = [template_set |-> action_cfg["template_set"],
                             slots_cfg |-> Get(action_cfg, "slots", <<>>),
                             rendered |-> <<>>]
                /\ pc' = "slots"
                /\ UNCHANGED ret
    /\ UNCHANGED <<world, disk, call, reads>>

\* one turn of the loop over slots_cfg (prompts.py:181-193)
RenderSlot ==
    /\ pc = "slots"
    /\ frame.slots_cfg # <<>>
    /\ LET slot_def == Head(frame.slots_cfg)
           slot_name == slot_def["slot"]
           path == TemplatePath(frame.template_set, _slot_to_filename(slot_name))
       IN  IF path \notin DOMAIN disk.templates
           THEN IF IsRequired(slot_def)
                THEN /\ ret' = Raised("FileNotFoundError")
                     /\ pc' = "done"
                     /\ UNCHANGED <<frame, reads>>
                ELSE /\ frame' = [frame EXCEPT !.slots_cfg = Tail(@)]
                     /\ UNCHANGED <<pc, ret, reads>>
           ELSE /\ frame' = [frame EXCEPT
                               !.slots_cfg = Tail(@),
                               !.rendered = DictSet(@, slot_name,
                                   _render_template_file(disk, path, call.blocks).val)]
                /\ reads' = Append(reads, path)
                /\ UNCHANGED <<pc, ret>>
    /\ UNCHANGED <<world, disk, call>>

\* return rendered (prompts.py:195)
ReturnRendered ==
    /\ pc = "slots"
    /\ frame.slots_cfg = <<>>
    /\ ret' = Returned(frame.rendered)
    /\ pc' = "done"
    /\ UNCHANGED <<world, disk, call, frame, reads>>

\* build_messages_from_prompts
BuildMessages ==
    /\ pc = "ready"
    /\ call.op = "build_messages_from_prompts"
    /\ ret' = Returned(build_messages_from_prompts(call.system, call.user, call.user2))
    /\ pc' = "done"
    /\ UNCHANGED <<world, disk, call, frame, reads>>

NextPrompts ==
    \/ RenderTemplateFile
    \/ LookupAction
    \/ RenderSlot
    \/ ReturnRendered
    \/ BuildMessages

SpecPrompts == InitPrompts /\ [][NextPrompts]_vars

-----------------------------------------------------------------------------
(* Claims about the Prompt Renderer.                                       *)

ActionCall == call.op = "render_prompts_for_action"

ActionDone == pc = "done" /\ ActionCall

\* the action keys of the prompting configuration on disk
KnownActions == DOMAIN ActionsCfg(disk)

\* C6: when prompting.yaml is there and the action key is not in its actions
\* mapping, render_prompts_for_action raises a KeyError whose message
\* contains every known action key, and no template file has been read or
\* rendered at any point of the call.
C6_UnknownActionFails ==
    (ActionCall /\ disk.prompting.exists /\ call.action_key \notin KnownActions) =>
        /\ pc # "slots"
        /\ reads = <<>>
        /\ frame = EmptyMap
        /\ pc = "done" =>
             /\ ~ret.ok
             /\ ret.err = "KeyError"
             /\ \A k \in KnownActions : Find(ret.val, <<k>>) # -1

\* an unknown key has been looked up in a configuration of two actions, with
\* template files on disk
C6_Witness ==
    /\ ActionDone
    /\ disk.prompting.exists
    /\ call.action_key \notin KnownActions
    /\ Cardinality(KnownActions) = 2
    /\ DOMAIN disk.templates # {}
    /\ ~ret.ok

TemplateCall == call.op = "_render_template_file"

TemplateDone ==
    /\ pc = "done"
    /\ TemplateCall
    /\ call.template_path \in DOMAIN disk.templates

TemplateText == disk.templates[call.template_path]

\* one pass over the template, left to right: the placeholder of a key of
\* the mapping gives the key's value, everything else stays
RECURSIVE SinglePass(_, _)
SinglePass(text, blocks) ==
    IF text = <<>> THEN <<>>
    ELSE IF Len(text) >= 3 /\ text[1] = "{{" /\ text[3] = "}}" /\ DictHas(blocks, text[2])
         THEN DictGet(blocks, text[2]) \o SinglePass(SubSeq(text, 4, Len(text)), blocks)
         ELSE <<Head(text)>> \o SinglePass(Tail(text), blocks)

\* the text holds no placeholder of a key of the mapping
NoMappedPlaceholder(text, blocks) ==
    \A i \in 1..Len(blocks) : Find(text, <<"{{", blocks[i].k, "}}">>) = -1

\* C7 as stated: the rendered text is the template with every placeholder of
\* a mapped key replaced by the key's value and everything else unchanged,
\* and it holds no placeholder of a mapped key.
C7_NoMappedPlaceholderLeft ==
    TemplateDone =>
        /\ ret = Returned(SinglePass(TemplateText, call.blocks))
        /\ NoMappedPlaceholder(ret.val, call.blocks)

\* C7, amended: the same, for the templates and mappings whose replaced text
\* spells no placeholder of a mapped key.
C7_RenderedUnlessValueSpellsPlaceholder ==
    (TemplateDone
     /\ NoMappedPlaceholder(SinglePass(TemplateText, call.blocks), call.blocks)) =>
        /\ ret = Returned(SinglePass(TemplateText, call.blocks))
        /\ NoMappedPlaceholder(ret.val, call.blocks)

\* a template with the placeholder of a mapped key and one of a key that is
\* not mapped has been rendered
C7_Witness ==
    /\ TemplateDone
    /\ call.blocks = <<[k |-> "A", v |-> <<"y">>]>>
    /\ TemplateText = <<"{{", "A", "}}", "B">>
    /\ ret = Returned(<<"y", "B">>)

\* the slots the action's configuration declares
DeclaredSlots == Get(ActionsCfg(disk)[call.action_key], "slots", <<>>)

SlotFileExists(slot_def) ==
    TemplatePath(ActionsCfg(disk)[call.action_key]["template_set"],
                 _slot_to_filename(slot_def["slot"])) \in DOMAIN disk.templates

MissingRequired(slot_def) ==
    /\ ~SlotFileExists(slot_def)
    /\ "required" \in DOMAIN slot_def
    /\ slot_def["required"]

\* C10: for a known action, render_prompts_for_action raises
\* FileNotFoundError when the template file of a required slot is missing,
\* and otherwise returns a mapping whose keys are the declared slots whose
\* template file exists.
C10_RequiredOrSkipped ==
    (ActionDone /\ disk.prompting.exists /\ call.action_key \in KnownActions) =>
        IF \E i \in 1..Len(DeclaredSlots) : MissingRequired(DeclaredSlots[i])
        THEN ~ret.ok /\ ret.err = "FileNotFoundError"
        ELSE /\ ret.ok
             /\ {ret.val[i].k : i \in 1..Len(ret.val)}
                   = {DeclaredSlots[i]["slot"] :
                        i \in {j \in 1..Len(DeclaredSlots) : SlotFileExists(DeclaredSlots[j])}}

\* a missing optional slot has been skipped and a missing required slot has
\* failed the call
C10_Witness ==
    /\ ActionDone
    /\ disk.prompting.exists
    /\ call.action_key \in KnownActions
    /\ Len(DeclaredSlots) = 2
    /\ ~ret.ok
    /\ ret.err = "FileNotFoundError"
    /\ DOMAIN disk.templates # {}
    /\ ~MissingRequired(DeclaredSlots[1])
    /\ ~SlotFileExists(DeclaredSlots[1])
    /\ MissingRequired(DeclaredSlots[2])
    /\ DeclaredSlots[1]["slot"] # DeclaredSlots[2]["slot"]

MessagesDone == pc = "done" /\ call.op = "build_messages_from_prompts"

\* the first two entries are the system text and the user text, and there
\* are never more than three
FirstTwoMessages ==
    /\ ret.ok
    /\ Len(ret.val) \in {2, 3}
    /\ ret.val[1] = [role |-> "system", content |-> call.system]
    /\ ret.val[2] = [role |-> "user", content |-> call.user]

\* the third entry, when there is one, is the secondary text under role user
ThirdIsSecondary ==
    Len(ret.val) = 3 => ret.val[3] = [role |-> "user", content |-> call.user2.text]

\* C11 as stated: system entry, user entry, and a third entry of role user
\* with the secondary text exactly when a non-empty secondary text is given.
C11_ThirdIffNonEmpty ==
    MessagesDone =>
        /\ FirstTwoMessages
        /\ ThirdIsSecondary
        /\ Len(ret.val) = 3 <=> (call.user2.some /\ call.user2.text # <<>>)

\* C11, amended: the third entry is there exactly when the secondary text is
\* given and has text other than whitespace.
C11_ThirdIffNonBlank ==
    MessagesDone =>
        /\ FirstTwoMessages
        /\ ThirdIsSecondary
        /\ Len(ret.val) = 3 <=> (call.user2.some /\ Strip(call.user2.text) # <<>>)

\* a secondary text with blanks around it has been given and is the third
\* entry as it was given
C11_Witness ==
    /\ MessagesDone
    /\ call.user2 = Some(<<" ", "t", NL>>)
    /\ Len(ret.val) = 3
    /\ ret.val[3].content = <<" ", "t", NL>>

-----------------------------------------------------------------------------
(* outline.py, codex.py, beat_spec.py: the beat specification.             *)

\* f"{n:02d}"
Pad2(n) == IF n < 10 THEN <<"0">> \o IntToStr(n) ELSE IntToStr(n)

\* the scene file under manuscript/chapters (outline.py:91-101)
ScenePath(chapter_num, scene_num) ==
    <<"ch">> \o Pad2(chapter_num) \o <<"/scenes/", "sc">> \o Pad2(scene_num) \o <<".md">>

\* load_master_outline
load_master_outline(d) ==
    [raw_text |-> IF d.master_outline.exists THEN d.master_outline.doc ELSE <<>>]

\* load_scene_outline
load_scene_outline(d, chapter_num, scene_num) ==
    LET path == ScenePath(chapter_num, scene_num)
    IN  [raw_text |-> IF path \in DOMAIN d.scenes THEN d.scenes[path] ELSE <<>>,
         path |-> path]

\* Python's None, beside a record
Nothing == [some |-> FALSE, val |-> EmptyMap]
Just(v) == [some |-> TRUE, val |-> v]

\* the last item of a dict
FirstItem_last(items) == items[Len(items)]

\* next(iter(d.items())) (outline.py:317)
FirstItem(items) == items[1]

\* determine_pov_character
determine_pov_character(scene_outline, characters) ==
    IF characters = <<>> THEN Nothing
    ELSE LET char_id == FirstItem(characters).k
             card == FirstItem(characters).v
         IN  Just([id |-> char_id,
                   name |-> Get(card, "name", char_id),
                   mode |-> ThirdPersonLimited])

\* get_characters_for_scene, get_locations_for_scene, get_threads
get_characters_for_scene(d, scene_outline) == _load_cards_for_type(d, "CHAR")

get_locations_for_scene(d, scene_outline) == _load_cards_for_type(d, "LOC")

get_threads(d) == _load_cards_for_type(d, "THREAD")

\* the identifier of the preferred style card (codex.py:359)
StyleProjectDefault == <<"STYLE_PROJECT_DEFAULT">>

\* the first style card, whatever its identifier
StyleGuide_first(styles) ==
    IF ~styles.ok THEN styles
    ELSE IF styles.val = <<>> THEN Returned(Nothing)
    ELSE Returned(Just(styles.val[1].v))

\* get_style_guide on the STYLE cards it loads
StyleGuide(styles) ==
    IF ~styles.ok THEN styles
    ELSE IF styles.val = <<>> THEN Returned(Nothing)
    ELSE IF DictHas(styles.val, StyleProjectDefault)
         THEN Returned(Just(DictGet(styles.val, StyleProjectDefault)))
    ELSE Returned(Just(styles.val[1].v))

\* get_style_guide
get_style_guide(d) == StyleGuide(_load_cards_for_type(d, "STYLE"))

\* the loop of get_pov_voice over voices.values(): the first card whose
\* `character` is the POV's name, else the first card
\* the first voice card, whatever its character attribute
MatchingVoice_first(voices, pov_name) == voices[1].v

MatchingVoice(voices, pov_name) ==
    LET matches == {i \in 1..Len(voices) :
                        /\ "character" \in DOMAIN voices[i].v
                        /\ voices[i].v["character"] = pov_name}
    IN  IF pov_name # <<>> /\ matches # {}
        THEN voices[CHOOSE i \in matches : \A j \in matches : i <= j].v
        ELSE voices[1].v

\* get_pov_voice on the VOICE and CHAR cards it loads
PovVoice(voices, chars, pov_char_id) ==
    IF ~voices.ok THEN voices
    ELSE IF voices.val = <<>> THEN Returned(Nothing)
    ELSE IF ~chars.ok THEN chars
    ELSE LET pov_card == IF DictHas(chars.val, pov_char_id)
                         THEN DictGet(chars.val, pov_char_id)
                         ELSE EmptyMap
         IN  Returned(Just(MatchingVoice(voices.val, TextOf(pov_card, "name"))))

\* get_pov_voice
get_pov_voice(d, pov_char_id) ==
    PovVoice(_load_cards_for_type(d, "VOICE"), _load_cards_for_type(d, "CHAR"), pov_char_id)

\* a filter that keeps no thread
_filter_threads_by_chapter_none(threads, chapter_num, thread_cfg) == <<>>

\* _filter_threads_by_chapter: the threads as they are
_filter_threads_by_chapter(threads, chapter_num, thread_cfg) == threads

\* m with m[k] = x.val when x is not None; a key whose value is None is
\* left out
OptKey(m, k, x) == IF x.some THEN MapSet(m, k, x.val) ELSE m

\* the beat_spec dict build_beat_spec assembles from its locals
\* (beat_spec.py:312-329)
BeatSpecOf(chapter_num, scene_num, beat_num, locals) ==
    LET beat_spec ==
            [ids |-> [chapter_num |-> chapter_num,
                      scene_num |-> scene_num,
                      beat_num |-> beat_num,
                      chapter_id |-> <<"ch">> \o Pad2(chapter_num),
                      scene_id |-> <<"sc">> \o Pad2(scene_num),
                      beat_id |-> <<"b">> \o Pad2(beat_num)],
             outline |-> locals["outline_context"],
             characters |-> locals["merged_characters"],
             locations |-> locals["locations"],
             threads |-> locals["time_filtered_threads"],
             generator_config |-> locals["cfg"]]
    IN  OptKey(OptKey(OptKey(beat_spec,
            "pov", locals["pov_info"]),
            "style", locals["style_guide"]),
            "voice", locals["pov_voice"])

-----------------------------------------------------------------------------
(* The story roots and calls of the beat specification.                    *)

\* beat numbers
MaxBeat == 2

\* codex/index.yaml with a folder for each of the six types
BeatTypes ==
       ("CHAR" :> ("folder" :> "characters"))
    @@ ("CHAR_OVERTIME" :> ("folder" :> "over_time"))
    @@ ("LOC" :> ("folder" :> "locations"))
    @@ ("THREAD" :> ("folder" :> "threads"))
    @@ ("STYLE" :> ("folder" :> "style"))
    @@ ("VOICE" :> ("folder" :> "voices"))

\* character cards: an id and a name, an id only, neither, a name only
PovTexts ==
    { Text(FrontMatter(<< <<"unique-id: A">>, <<"names: [ m ]">> >>) \o << <<"a">> >>),
      Text(FrontMatter(<< <<"unique-id: B">> >>) \o << <<"b">> >>),
      Text(<< <<"c">> >>),
      Text(FrontMatter(<< <<"names: [n, m]">> >>)) }

PovFiles == [stem : Stems, text : PovTexts]

\* voice folders: none, one card for no character, cards for m and n
VoiceFolders ==
    { <<>>,
      << [stem |-> <<"V">>, text |-> Text(<< <<"v">> >>)] >>,
      << [stem |-> <<"V">>, text |-> Text(<< <<"v">> >>)],
         [stem |-> <<"W">>, text |-> Text(FrontMatter(<< <<"character: m">> >>))] >>,
      << [stem |-> <<"V">>, text |-> Text(FrontMatter(<< <<"character: n">> >>))],
         [stem |-> <<"W">>, text |-> Text(FrontMatter(<< <<"character: m">> >>))] >> }

\* style folders: none, one card, and the project default after another
StyleFolders ==
    { <<>>,
      << [stem |-> <<"S">>, text |-> Text(FrontMatter(<< <<"default_tone: t">> >>))] >>,
      << [stem |-> <<"S">>, text |-> Text(<< <<"s">> >>)],
         [stem |-> <<"D">>,
          text |-> Text(FrontMatter(<< <<"unique-id: STYLE_PROJECT_DEFAULT">> >>))] >> }

\* over-time, location and thread folders: none, or one card
OverTimeFolders ==
    { <<>>,
      << [stem |-> <<"A", Suffix>>,
          text |-> Text(FrontMatter(<< <<"unique-id: A_OVER_TIME">>,
                                       <<"chapter_state: c">> >>))] >> }

LoreFolders ==
    { <<>>, << [stem |-> <<"L">>, text |-> Text(<< <<"l">> >>)] >> }

\* beatgen.yaml: empty, or with a target word count
BeatgenDocs ==
    { EmptyMap, ("prompt_parameters" :> ("target_words" :> 2)) }

\* the scene files: none, or chapter 1 scene 1
SceneFiles ==
    { NoFolders,
      (ScenePath(1, 1) :> Text(<< <<"#", " ", "T">>, <<"#", "#", " ", "S">>, <<"u">> >>)) }

\* a story root with beatgen.yaml, a codex of six folders and scene files
BeatRoot(cfg, folders, scenes) ==
    [EmptyRoot EXCEPT !.beatgen = [exists |-> TRUE, doc |-> cfg],
                      !.index = [exists |-> TRUE, doc |-> ("types" :> BeatTypes)],
                      !.folders = folders,
                      !.scenes = scenes]

BeatCall(chapter_num, scene_num, beat_num) ==
    [op |-> "build_beat_spec",
     chapter_num |-> chapter_num, scene_num |-> scene_num, beat_num |-> beat_num]

\* the character, over-time and voice cards vary
InitBeatCharacters ==
    /\ call = BeatCall(1, 1, 1)
    /\ \E chars \in Directories(PovFiles), voices \in VoiceFolders,
          over_time \in OverTimeFolders :
         disk = BeatRoot(EmptyMap,
                         ("characters" :> chars) @@ ("voices" :> voices)
                         @@ ("over_time" :> over_time),
                         NoFolders)
    /\ Ready

\* the configuration, the outline and the other cards vary
InitBeatCodex ==
    /\ \E chapter_num \in 1..MaxChapter, scene_num \in 1..MaxScene, beat_num \in 1..MaxBeat :
         call = BeatCall(chapter_num, scene_num, beat_num)
    /\ \/ disk = EmptyRoot
       \/ disk = [EmptyRoot EXCEPT !.beatgen = [exists |-> TRUE, doc |-> EmptyMap]]
       \/ \E cfg \in BeatgenDocs, scenes \in SceneFiles, styles \in StyleFolders,
             over_time \in OverTimeFolders, lore \in LoreFolders :
            disk = BeatRoot(cfg,
                            ("characters" :>
                                << [stem |-> <<"A">>,
                                    text |-> Text(FrontMatter(<< <<"unique-id: A">> >>))] >>)
                            @@ ("over_time" :> over_time)
                            @@ ("locations" :> lore)
                            @@ ("threads" :> lore)
                            @@ ("style" :> styles),
                            scenes)
    /\ Ready

InitBeat == InitBeatCharacters \/ InitBeatCodex

\* a stage that continues whatever its result
Stage_regardless(result, name, next) ==
    /\ frame' = MapSet(frame, name, result.val)
    /\ pc' = next
    /\ ret' = IF result.ok THEN ret ELSE result
    /\ UNCHANGED <<world, disk, call, reads>>

\* a stage of build_beat_spec has given `result`: its value goes to the
\* local `name` and the call moves on to `next`, or its exception ends the
\* call
Stage(result, name, next) ==
    /\ IF result.ok
       THEN /\ frame' = MapSet(frame, name, result.val)
            /\ pc' = next
            /\ UNCHANGED ret
       ELSE /\ ret' = result
            /\ pc' = "done"
            /\ UNCHANGED frame
    /\ UNCHANGED <<world, disk, call, reads>>

\* cfg = _load_beatgen_config(...) (beat_spec.py:249)
LoadBeatgenConfig ==
    /\ pc = "ready"
    /\ call.op \in {"build_beat_spec", "run_write_beat_job"}
    /\ Stage(IF disk.beatgen.exists THEN Returned(disk.beatgen.doc)
             ELSE Raised("FileNotFoundError"),
             "cfg", "outline")

\* the master and scene outlines and the outline context
\* (beat_spec.py:252-264)
LoadOutline ==
    /\ pc = "outline"
    /\ LET master_outline == load_master_outline(disk)
           scene_outline == load_scene_outline(disk, call.chapter_num, call.scene_num)
       IN  /\ frame' = MapSet(MapSet(frame, "scene_outline", scene_outline),
                              "outline_context",
                              build_outline_context(scene_outline, call.chapter_num))
           /\ pc' = "characters"
    /\ UNCHANGED <<world, disk, call, reads, ret>>

\* characters = get_characters_for_scene(...) (beat_spec.py:267-270)
LoadCharacters ==
    /\ pc = "characters"
    /\ Stage(get_characters_for_scene(disk, frame["scene_outline"]),
             "characters", "over_time")

\* characters_over_time = get_characters_over_time(...) (beat_spec.py:272-275)
LoadCharactersOverTime ==
    /\ pc = "over_time"
    /\ Stage(get_characters_over_time(disk, DictKeys(frame["characters"])),
             "characters_over_time", "locations")

\* locations = get_locations_for_scene(...) (beat_spec.py:277-280)
LoadLocations ==
    /\ pc = "locations"
    /\ Stage(get_locations_for_scene(disk, frame["scene_outline"]),
             "locations", "threads")

\* threads = get_threads(...) (beat_spec.py:282)
LoadThreads ==
    /\ pc = "threads"
    /\ Stage(get_threads(disk), "threads", "style")

\* style_guide = get_style_guide(...) (beat_spec.py:283)
LoadStyleGuide ==
    /\ pc = "style"
    /\ Stage(get_style_guide(disk), "style_guide", "pov")

\* pov_info = determine_pov_character(...) (beat_spec.py:285-288)
DeterminePov ==
    /\ pc = "pov"
    /\ Stage(Returned(determine_pov_character(frame["scene_outline"], frame["characters"])),
             "pov_info", "voice")

\* pov_voice: None, or get_pov_voice for the POV's id (beat_spec.py:290-297)
LoadPovVoice ==
    /\ pc = "voice"
    /\ Stage(IF frame["pov_info"].some
             THEN get_pov_voice(disk, frame["pov_info"].val.id)
             ELSE Returned(Nothing),
             "pov_voice", "assemble")

\* the time-aware views and the beat_spec returned (beat_spec.py:299-331)
AssembleBeatSpec ==
    /\ pc = "assemble"
    /\ LET locals ==
             MapSet(MapSet(frame,
                 "time_filtered_threads",
                 _filter_threads_by_chapter(frame["threads"], call.chapter_num,
                                            Get(frame["cfg"], "threads", EmptyMap))),
                 "merged_characters",
                 _merge_character_cards_with_over_time(frame["characters"],
                                                       frame["characters_over_time"]))
           beat_spec == BeatSpecOf(call.chapter_num, call.scene_num,
                                   call.beat_num, locals)
       IN  IF call.op = "run_write_beat_job"
           THEN /\ frame' = MapSet(locals, "beat_spec", beat_spec)
                /\ pc' = "blocks"
                /\ UNCHANGED ret
           ELSE /\ frame' = locals
                /\ ret' = Returned(beat_spec)
                /\ pc' = "done"
    /\ UNCHANGED <<world, disk, call, reads>>

NextBeat ==
    \/ LoadBeatgenConfig
    \/ LoadOutline
    \/ LoadCharacters
    \/ LoadCharactersOverTime
    \/ LoadLocations
    \/ LoadThreads
    \/ LoadStyleGuide
    \/ DeterminePov
    \/ LoadPovVoice
    \/ AssembleBeatSpec

SpecBeat == InitBeat /\ [][NextBeat]_vars

-----------------------------------------------------------------------------
(* Claims about the Beat Spec Builder.                                     *)

\* build_beat_spec has returned a beat specification
BeatBuilt == pc = "done" /\ call.op = "build_beat_spec" /\ ret.ok

\* the character cards the Card Store loads, in its enumeration order
LoadedCharacters == _load_cards_for_type(disk, "CHAR").val

\* C8: the POV of a beat specification is absent when no character card is
\* loaded; otherwise it is {id, name, mode} of the first loaded character,
\* mode "third person limited", name the card's name or, when it has none,
\* its identifier.
C8_PovIsFirstCharacter ==
    BeatBuilt =>
        IF LoadedCharacters = <<>>
        THEN "pov" \notin DOMAIN ret.val
        ELSE /\ "pov" \in DOMAIN ret.val
             /\ DOMAIN ret.val["pov"] = {"id", "name", "mode"}
             /\ ret.val["pov"]["id"] = LoadedCharacters[1].k
             /\ ret.val["pov"]["mode"] = <<"third person limited">>
             /\ ret.val["pov"]["name"] =
                  IF "name" \in DOMAIN LoadedCharacters[1].v
                  THEN LoadedCharacters[1].v["name"]
                  ELSE LoadedCharacters[1].k

\* two characters are loaded, the first without a name and the second with
\* one, and the POV is the first under its identifier
C8_Witness ==
    /\ BeatBuilt
    /\ Len(LoadedCharacters) = 2
    /\ "name" \notin DOMAIN LoadedCharacters[1].v
    /\ "name" \in DOMAIN LoadedCharacters[2].v
    /\ "pov" \in DOMAIN ret.val
    /\ ret.val["pov"]["name"] = ret.val["pov"]["id"]

\* the identifiers of a mapping, as a set
KeySet(d) == {d[i].k : i \in 1..Len(d)}

\* C13: in a returned beat specification the merged character map has the
\* keys of the loaded character cards and no others, the id of every entry
\* is the key it is stored under, and the POV, when there is one, has the id
\* of an entry of that map.
C13_MergedKeysAreLoadedKeys ==
    BeatBuilt =>
        LET merged == ret.val["characters"]
        IN  /\ KeySet(merged) = KeySet(LoadedCharacters)
            /\ Len(merged) = Len(LoadedCharacters)
            /\ \A i \in 1..Len(merged) : merged[i].v["id"] = merged[i].k
            /\ "pov" \in DOMAIN ret.val => ret.val["pov"]["id"] \in KeySet(merged)

\* two characters are loaded, only the second has an over-time card, and the
\* beat specification has both and a POV
C13_Witness ==
    /\ BeatBuilt
    /\ Len(LoadedCharacters) = 2
    /\ Len(ret.val["characters"]) = 2
    /\ ret.val["characters"][1].v["over_time"] = EmptyMap
    /\ ret.val["characters"][2].v["over_time"] # EmptyMap
    /\ "pov" \in DOMAIN ret.val

-----------------------------------------------------------------------------
(* prompts.py: render_prompts_for_action as one function of the story root.*)

\* the loop over slots_cfg (prompts.py:181-193), from the slots still to do
\* and the prompts rendered so far
RECURSIVE RenderSlots(_, _, _, _, _)
RenderSlots(d, template_set, slots_cfg, blocks, rendered) ==
    IF slots_cfg = <<>> THEN Returned(rendered)
    ELSE LET slot_def == Head(slots_cfg)
             slot_name == slot_def["slot"]
             path == TemplatePath(template_set, _slot_to_filename(slot_name))
         IN  IF path \notin DOMAIN d.templates
             THEN IF IsRequired(slot_def)
                  THEN Raised("FileNotFoundError")
                  ELSE RenderSlots(d, template_set, Tail(slots_cfg), blocks, rendered)
             ELSE RenderSlots(d, template_set, Tail(slots_cfg), blocks,
                      DictSet(rendered, slot_name,
                              _render_template_file(d, path, blocks).val))

\* render_prompts_for_action
render_prompts_for_action(d, action_key, blocks) ==
    IF ~d.prompting.exists THEN Raised("FileNotFoundError")
    ELSE IF action_key \notin DOMAIN ActionsCfg(d)
    THEN RaisedWith("KeyError", UnknownActionMessage(action_key, ActionsCfg(d)))
    ELSE LET action_cfg == ActionsCfg(d)[action_key]
         IN  RenderSlots(d, action_cfg["template_set"],
                         Get(action_cfg, "slots", <<>>), blocks, <<>>)

-----------------------------------------------------------------------------
(* model_client.py: the call of the completion endpoint.                   *)

\* _load_model_config, and config["model"] (model_client.py:134-139)
_load_model_config(d) ==
    IF ~d.model.exists THEN Raised("FileNotFoundError")
    ELSE IF "model" \notin DOMAIN d.model.doc THEN Raised("KeyError")
    ELSE Returned(d.model.doc)

\* the timeout when the configuration gives none (model_client.py:139)
DefaultTimeoutSeconds == 120

\* the variable that holds the key when the configuration names none
\* (model_client.py:138)
DefaultApiKeyEnv == "OPENAI_API_KEY"

\* os.getenv(name)
os_getenv(env, name) == IF name \in DOMAIN env THEN Some(env[name]) ELSE None

\* a key that is only asked to be set
HasApiKey_set(api_key) == api_key.some

\* `not api_key` is false (model_client.py:142)
HasApiKey(api_key) == api_key.some /\ api_key.text # <<>>

\* client_kwargs (model_client.py:148-151)
ClientKwargs(config, api_key) ==
    IF Truthy(config, "base_url")
    THEN [api_key |-> api_key, base_url |-> config["base_url"]]
    ELSE [api_key |-> api_key]

\* the request of client.chat.completions.create (model_client.py:155-163)
CompletionRequest(config, messages) ==
    [model |-> config["model"],
     messages |-> messages,
     timeout |-> Get(config, "timeout_seconds", DefaultTimeoutSeconds),
     params |-> Get(config, "default_params", EmptyMap)]

\* a request that is sent again after it was answered
SendRequest_again(w, request, response) ==
    [w EXCEPT !.requests = @ \o <<[request |-> request, response |-> response],
                                  [request |-> request, response |-> response]>>]

\* the endpoint receives the request and answers it
SendRequest(w, request, response) ==
    [w EXCEPT !.requests = Append(@, [request |-> request, response |-> response])]

\* the result of call_model for a response (model_client.py:166-180); the
\* usage figures are None when the backend gives none
ModelResult(response) ==
    [text |-> response.content, tokens_used |-> response.usage, raw |-> response]

-----------------------------------------------------------------------------
(* paths.py, write_beat.py: the job that writes one beat.                  *)

\* beat_file: manuscript/chapters/chXX/beats/scYY_bZZ.md, as path components
beat_file(chapter_num, scene_num, beat_num) ==
    << <<"manuscript">>, <<"chapters">>, <<"ch">> \o Pad2(chapter_num), <<"beats">>,
       <<"sc">> \o Pad2(scene_num) \o <<"_", "b">> \o Pad2(beat_num) \o <<".md">> >>

\* path.parent.mkdir(parents=True, exist_ok=True): the directory and the
\* directories above it are there
mkdir_parents(manuscript, dir) ==
    [manuscript EXCEPT !.dirs = @ \cup {SubSeq(dir, 1, n) : n \in 1..Len(dir)}]

\* path.write_text(text)
write_text(manuscript, path, text) ==
    [manuscript EXCEPT !.files = (path :> text) @@ @]

\* messages of the rendered prompts (write_beat.py:99-108)
JobMessages(rendered_prompts) ==
    IF ~DictHas(rendered_prompts, "system") THEN RaisedWith("KeyError", <<"system">>)
    ELSE IF ~DictHas(rendered_prompts, "user") THEN RaisedWith("KeyError", <<"user">>)
    ELSE LET user2_text == IF DictHas(rendered_prompts, "user2")
                           THEN DictGet(rendered_prompts, "user2")
                           ELSE <<>>
         IN  Returned(build_messages_from_prompts(
                 DictGet(rendered_prompts, "system"),
                 DictGet(rendered_prompts, "user"),
                 IF user2_text # <<>> THEN Some(user2_text) ELSE None))


-----------------------------------------------------------------------------
(* The story roots, environments and calls of the job.                     *)

\* character folders: one card, no card, a card whose front matter is plain
\* text, and no folder
JobCharacterFolders ==
    { ("characters" :> << [stem |-> <<"A">>,
                           text |-> Text(FrontMatter(<< <<"unique-id: A">> >>)
                                         \o << <<"a">> >>)] >>),
      ("characters" :> <<>>),
      ("characters" :> << [stem |-> <<"A">>,
                           text |-> Text(FrontMatter(<< <<"a">> >>) \o << <<"b">> >>)] >>),
      NoFolders }

\* prompting.yaml of the job: system and user required and user2 optional,
\* system optional, no slots, and another action only
JobSlot(name, required) == ("slot" :> name) @@ ("required" :> required)

JobPromptingDocs ==
    { ("actions" :> ("ACTIONS_WRITE_BEAT" :>
          [template_set |-> BeatSet,
           slots |-> <<JobSlot("system", TRUE), JobSlot("user", TRUE),
                       JobSlot("user2", FALSE)>>])),
      ("actions" :> ("ACTIONS_WRITE_BEAT" :>
          [template_set |-> BeatSet,
           slots |-> <<JobSlot("system", FALSE), JobSlot("user", TRUE)>>])),
      ("actions" :> ("ACTIONS_WRITE_BEAT" :> ("template_set" :> BeatSet))),
      ("actions" :> ("ACTIONS_MAKE_PRESENT_TENSE" :> ("template_set" :> "nc/tense"))) }

JobPromptingFiles ==
    {NoFile} \cup {[exists |-> TRUE, doc |-> doc] : doc \in JobPromptingDocs}

\* the template files on disk: any of the three, and all three with an empty
\* user_2.txt
JobTemplateFiles ==
    TemplateFiles
    \cup {[p \in {TemplatePath(BeatSet, _slot_to_filename(name)) : name \in SlotNames} |->
             IF p.file = "user_2.txt" THEN <<>> ELSE <<p.file>>]}

\* model.yaml: not there, without `model`, with the default key variable,
\* and naming its own key variable and base URL
ModelFiles ==
    { NoFile,
      [exists |-> TRUE, doc |-> ("base_url" :> <<"http://localhost:8080/v1">>)],
      [exists |-> TRUE, doc |-> ("model" :> "m")],
      [exists |-> TRUE,
       doc |-> [model |-> "m", api_key_env |-> "LLM_API_KEY",
                base_url |-> <<"http://localhost:8080/v1">>]] }

\* the process environment: no key, an empty key, and a key under either name
Environments ==
    { EmptyMap,
      ("OPENAI_API_KEY" :> <<>>),
      ("OPENAI_API_KEY" :> <<"k">>),
      ("LLM_API_KEY" :> <<"k">>),
      ("LLM_API_KEY" :> <<>>) @@ ("OPENAI_API_KEY" :> <<"k">>) }

\* what the endpoint can do with a request: answer with text, answer with no
\* text, or fail
Responses ==
    { Returned([content |-> Some(<<"g">>), usage |-> ("total_tokens" :> 3)]),
      Returned([content |-> None, usage |-> EmptyMap]),
      Raised("APIError") }

\* the manuscript before the job: nothing, or the beat file of an earlier run
Manuscripts ==
    { [dirs |-> {}, files |-> EmptyMap],
      write_text(mkdir_parents([dirs |-> {}, files |-> EmptyMap],
                               SubSeq(beat_file(1, 1, 1), 1, 4)),
                 beat_file(1, 1, 1), <<"o">>) }

\* a story root on which the job runs to its end
JobRoot ==
    [BeatRoot(("prompt_parameters" :> ("target_words" :> 2)),
              ("characters" :> << [stem |-> <<"A">>,
                                   text |-> Text(FrontMatter(<< <<"unique-id: A">> >>)
                                                 \o << <<"a">> >>)] >>)
              @@ ("threads" :> << [stem |-> <<"T">>, text |-> Text(<< <<"t">> >>)] >>),
              (ScenePath(1, 1) :> Text(<< <<"#", " ", "T">>, <<"u">> >>)))
     EXCEPT !.prompting = [exists |-> TRUE,
                           doc |-> ("actions" :> ("ACTIONS_WRITE_BEAT" :>
                               [template_set |-> BeatSet,
                                slots |-> <<JobSlot("system", TRUE), JobSlot("user", TRUE),
                                            JobSlot("user2", FALSE)>>]))],
            !.templates = [p \in {TemplatePath(BeatSet, _slot_to_filename(name)) :
                                     name \in SlotNames} |->
                             <<p.file, ":", " ", "{{", "CODEX_BLOCK", "}}">>],
            !.model = [exists |-> TRUE, doc |-> ("model" :> "m")]]

\* an environment in which the key of JobRoot is set
JobWorld == [NoWorld EXCEPT !.env = ("OPENAI_API_KEY" :> <<"k">>)]

JobCall(chapter_num, scene_num, beat_num) ==
    [op |-> "run_write_beat_job",
     chapter_num |-> chapter_num, scene_num |-> scene_num, beat_num |-> beat_num]

\* a call that has not started
JobReady ==
    /\ pc = "ready"
    /\ frame = EmptyMap
    /\ reads = <<>>
    /\ ret = Returned(<<>>)

\* the configuration, the codex and the outline vary
InitJobStory ==
    /\ call = JobCall(1, 1, 1)
    /\ \E beatgen \in BOOLEAN, index \in BOOLEAN, folders \in JobCharacterFolders,
          scenes \in SceneFiles :
         disk = [JobRoot EXCEPT
                   !.beatgen = IF beatgen THEN @ ELSE NoFile,
                   !.index = IF index THEN @ ELSE NoFile,
                   !.folders = folders,
                   !.scenes = scenes]
    /\ world = JobWorld
    /\ JobReady

\* prompting.yaml and the template files vary
InitJobPrompts ==
    /\ call = JobCall(1, 1, 1)
    /\ \E prompting \in JobPromptingFiles, files \in JobTemplateFiles :
         disk = [JobRoot EXCEPT !.prompting = prompting, !.templates = files]
    /\ world = JobWorld
    /\ JobReady

\* model.yaml, the environment, the manuscript and the beat vary
InitJobModel ==
    /\ \E beat_num \in 1..MaxBeat : call = JobCall(1, 1, beat_num)
    /\ \E model \in ModelFiles, manuscript \in Manuscripts :
         disk = [JobRoot EXCEPT !.model = model, !.manuscript = manuscript]
    /\ \E env \in Environments : world = [NoWorld EXCEPT !.env = env]
    /\ JobReady

\* call_model on its own
InitCallModel ==
    /\ \E user2 \in {None, Some(<<"t">>)} :
         call = [op |-> "call_model",
                 messages |-> build_messages_from_prompts(<<"s">>, <<"u">>, user2)]
    /\ \E model \in ModelFiles : disk = [EmptyRoot EXCEPT !.model = model]
    /\ \E env \in Environments : world = [NoWorld EXCEPT !.env = env]
    /\ JobReady

InitJob == InitJobStory \/ InitJobPrompts \/ InitJobModel \/ InitCallModel

\* blocks = build_blocks_from_beat_spec(...) (write_beat.py:87)
JobBuildBlocks ==
    /\ pc = "blocks"
    /\ Stage(Returned(build_blocks_from_beat_spec(frame["beat_spec"])),
             "blocks", "prompts")

\* rendered_prompts = render_prompts_for_action(...) (write_beat.py:93-97)
JobRenderPrompts ==
    /\ pc = "prompts"
    /\ Stage(render_prompts_for_action(disk, "ACTIONS_WRITE_BEAT", frame["blocks"]),
             "rendered_prompts", "messages")

\* the three texts and messages = build_messages_from_prompts(...)
\* (write_beat.py:99-108)
JobBuildMessages ==
    /\ pc = "messages"
    /\ Stage(JobMessages(frame["rendered_prompts"]), "messages", "model")

\* the messages call_model is given
Messages == IF call.op = "call_model" THEN call.messages ELSE frame["messages"]

\* config = _load_model_config(...) and its settings (model_client.py:134-139)
LoadModelConfig ==
    /\ \/ pc = "model"
       \/ pc = "ready" /\ call.op = "call_model"
    /\ Stage(_load_model_config(disk), "config", "api_key")

\* api_key = os.getenv(api_key_env), RuntimeError without it
\* (model_client.py:141-145)
ReadApiKey ==
    /\ pc = "api_key"
    /\ LET api_key_env == Get(frame["config"], "api_key_env", DefaultApiKeyEnv)
           api_key == os_getenv(world.env, api_key_env)
       IN  Stage(IF HasApiKey(api_key) THEN Returned(api_key.text)
                 ELSE RaisedWith("RuntimeError", <<api_key_env>>),
                 "api_key", "client")

\* client = OpenAI(**client_kwargs) (model_client.py:148-153)
CreateClient ==
    /\ pc = "client"
    /\ world' = [world EXCEPT
                   !.clients = Append(@, ClientKwargs(frame["config"], frame["api_key"]))]
    /\ pc' = "request"
    /\ UNCHANGED <<disk, call, frame, reads, ret>>

\* response = client.chat.completions.create(...) and the result of
\* call_model (model_client.py:158-180): the endpoint answers or fails
CreateCompletion ==
    /\ pc = "request"
    /\ \E response \in Responses :
         /\ world' = SendRequest(world, CompletionRequest(frame["config"], Messages),
                                 response)
         /\ IF ~response.ok
            THEN /\ ret' = response
                 /\ pc' = "done"
                 /\ UNCHANGED frame
            ELSE IF call.op = "call_model"
            THEN /\ ret' = Returned(ModelResult(response.val))
                 /\ pc' = "done"
                 /\ UNCHANGED frame
            ELSE /\ frame' = MapSet(frame, "model_result", ModelResult(response.val))
                 /\ pc' = "write"
                 /\ UNCHANGED ret
    /\ UNCHANGED <<disk, call, reads>>

\* the beat file is written and the job returns (write_beat.py:117-134);
\* write_text raises TypeError for a text that is None
WriteBeatFile ==
    /\ pc = "write"
    /\ LET model_result == frame["model_result"]
           beat_path == beat_file(call.chapter_num, call.scene_num, call.beat_num)
           made == mkdir_parents(disk.manuscript, SubSeq(beat_path, 1, Len(beat_path) - 1))
       IN  IF model_result.text.some
           THEN /\ disk' = [disk EXCEPT
                              !.manuscript = write_text(made, beat_path,
                                                        model_result.text.text)]
                /\ ret' = Returned([beat_path |-> beat_path,
                                    tokens_used |-> model_result.tokens_used,
                                    status |-> "ok",
                                    raw |-> model_result.raw])
           ELSE /\ disk' = [disk EXCEPT !.manuscript = made]
                /\ ret' = Raised("TypeError")
    /\ pc' = "done"
    /\ UNCHANGED <<world, call, frame, reads>>

NextJob ==
    \/ LoadBeatgenConfig
    \/ LoadOutline
    \/ LoadCharacters
    \/ LoadCharactersOverTime
    \/ LoadLocations
    \/ LoadThreads
    \/ LoadStyleGuide
    \/ DeterminePov
    \/ LoadPovVoice
    \/ AssembleBeatSpec
    \/ JobBuildBlocks
    \/ JobRenderPrompts
    \/ JobBuildMessages
    \/ LoadModelConfig
    \/ ReadApiKey
    \/ CreateClient
    \/ CreateCompletion
    \/ WriteBeatFile

SpecJob == InitJob /\ [][NextJob]_vars


-----------------------------------------------------------------------------
(* Claims about the Job Orchestrator and the model call.                   *)

\* run_write_beat_job has ended, by returning or by raising
JobDone == call.op = "run_write_beat_job" /\ pc = "done"

\* the configuration of the job's action in prompting.yaml, if there is one
JobActions == Get(disk.prompting.doc, "actions", EmptyMap)

\* prompting.yaml has no action ACTIONS_WRITE_BEAT
UnknownAction == "ACTIONS_WRITE_BEAT" \notin DOMAIN JobActions

\* a slot of the action is declared required and its template file is not
\* on disk
MissingRequiredTemplate ==
    /\ ~UnknownAction
    /\ LET action_cfg == JobActions["ACTIONS_WRITE_BEAT"]
           slots == Get(action_cfg, "slots", <<>>)
       IN  \E i \in 1..Len(slots) :
             /\ Get(slots[i], "required", FALSE)
             /\ TemplatePath(action_cfg["template_set"],
                             _slot_to_filename(slots[i]["slot"]))
                    \notin DOMAIN disk.templates

\* the variable model.yaml names for the key, OPENAI_API_KEY when it names
\* none
KeyVariable == Get(disk.model.doc, "api_key_env", "OPENAI_API_KEY")

\* the key variable is unset or empty
MissingCredential ==
    KeyVariable \notin DOMAIN world.env \/ world.env[KeyVariable] = <<>>

\* the endpoint was called and failed
ModelCallFailed ==
    \E i \in 1..Len(world.requests) : ~world.requests[i].response.ok

\* C14: a job that ends in a failure has an unknown action key, a missing
\* required template file, a missing credential or a failed model call; with
\* none of these, outline files, card folders, card files and optional
\* template files that are absent or empty do not make it fail.
C14_OnlyContractFailures ==
    (JobDone /\ ~ret.ok) =>
        UnknownAction \/ MissingRequiredTemplate \/ MissingCredential \/ ModelCallFailed


\* the stage of the job a position belongs to: 1 beat-spec assembly, 2 block
\* rendering, 3 prompt rendering, 4 message construction, 5 model call,
\* 6 beat-file write, 7 the end of the job
StageOf(position) ==
    CASE position = "blocks" -> 2
      [] position = "prompts" -> 3
      [] position = "messages" -> 4
      [] position \in {"model", "api_key", "client", "request"} -> 5
      [] position = "write" -> 6
      [] position = "done" -> 7
      [] OTHER -> 1

\* C15: every step of the job stays in its stage or enters the next one, or
\* ends the job with the failure of the step; no step is taken once a stage
\* has failed or the job has ended; the job ends well only from the
\* beat-file write; and the manuscript changes only in the step that ends
\* the job from the beat-file write.
C15_StagesInOrder ==
    [][call.op = "run_write_beat_job" =>
          /\ ret.ok /\ pc # "done"
          /\ \/ StageOf(pc') \in {StageOf(pc), StageOf(pc) + 1}
             \/ pc' = "done" /\ ~ret'.ok
          /\ (ret'.ok /\ pc' = "done") => pc = "write"
          /\ disk'.manuscript # disk.manuscript => pc = "write" /\ pc' = "done"
          /\ disk'.manuscript.files # disk.manuscript.files => ret'.ok]_vars

\* a job has run through its six stages and written the beat file
C15_Witness ==
    /\ JobDone
    /\ ret.ok
    /\ Len(world.requests) = 1
    /\ beat_file(call.chapter_num, call.scene_num, call.beat_num)
           \in DOMAIN disk.manuscript.files
    /\ {"beat_spec", "blocks", "rendered_prompts", "messages", "model_result"}
           \subseteq DOMAIN frame


\* C16: in a run of the job the endpoint receives at most one request, and
\* when that request fails the job ends with that very failure, sends
\* nothing more and writes nothing.
C16_OneCallNoRetry ==
    call.op = "run_write_beat_job" =>
        /\ Len(world.requests) <= 1
        /\ ModelCallFailed =>
             /\ pc = "done"
             /\ ret = world.requests[1].response
             /\ disk.manuscript \in Manuscripts

\* the one request of a job has failed and the job has ended with its failure
C16_Witness ==
    /\ JobDone
    /\ Len(world.requests) = 1
    /\ ~world.requests[1].response.ok
    /\ ret = Raised("APIError")


\* call_model has been entered and has ended, on its own or in the job
CallModelEnded ==
    \/ call.op = "call_model" /\ pc = "done"
    \/ call.op = "run_write_beat_job" /\ pc \in {"write", "done"}
         /\ "messages" \in DOMAIN frame

\* C17: while the key variable named by model.yaml (OPENAI_API_KEY when it
\* names none) is unset or empty, no client is created and no request sent,
\* and call_model ends in an error: the RuntimeError that names the
\* variable when model.yaml is there and gives a model.
C17_NoKeyNoClient ==
    MissingCredential =>
        /\ world.clients = <<>>
        /\ world.requests = <<>>
        /\ CallModelEnded =>
             /\ ~ret.ok
             /\ (disk.model.exists /\ "model" \in DOMAIN disk.model.doc)
                  => ret = RaisedWith("RuntimeError", <<KeyVariable>>)

\* model.yaml names LLM_API_KEY, which is set but empty while OPENAI_API_KEY
\* has a key, and call_model has ended with the RuntimeError
C17_Witness ==
    /\ CallModelEnded
    /\ KeyVariable = "LLM_API_KEY"
    /\ "LLM_API_KEY" \in DOMAIN world.env
    /\ "OPENAI_API_KEY" \in DOMAIN world.env
    /\ MissingCredential
    /\ ret = RaisedWith("RuntimeError", <<"LLM_API_KEY">>)


-----------------------------------------------------------------------------
(* Further claims about the Card Store.                                    *)

\* C22: when the over-time cards load, the lookup raises nothing; its keys
\* are requested identifiers; each entry is a loaded over-time card whose
\* identifier contains the key; and a requested identifier that no loaded
\* over-time card's identifier contains has no entry.
C22_OnlyRequestedKeys ==
    (OverTimeDone /\ LoadedOverTime.ok) =>
        /\ ret.ok
        /\ KeySet(ret.val) \subseteq Requested
        /\ \A n \in 1..Len(ret.val) :
             \E i \in 1..Len(LoadedOverTime.val) :
                /\ LoadedOverTime.val[i].v = ret.val[n].v
                /\ Contains(LoadedOverTime.val[i].k, ret.val[n].k)
        /\ \A b \in Requested :
             (\A i \in 1..Len(LoadedOverTime.val) : ~Contains(LoadedOverTime.val[i].k, b))
                 => ~DictHas(ret.val, b)

\* two identifiers are requested and two over-time cards loaded; one card
\* is returned, one is dropped, and one identifier has no entry
C22_Witness ==
    /\ OverTimeDone
    /\ LoadedOverTime.ok
    /\ Len(LoadedOverTime.val) = 2
    /\ Cardinality(Requested) = 2
    /\ Len(ret.val) = 1
    /\ \E i \in 1..2 : \A b \in Requested : ~Contains(LoadedOverTime.val[i].k, b)
    /\ \E b \in Requested :
         \A i \in 1..2 : ~Contains(LoadedOverTime.val[i].k, b)


\* C27: every card is stored under its unique-id when it declares one and
\* under its file's base name otherwise, and every card file of the folder
\* is retrievable: the mapping has as many entries as the folder has files,
\* also when two files share an identifier.
C27_EveryFileRetrievable ==
    (LoadDone /\ FolderOnDisk /\ ret.ok) =>
        /\ Len(ret.val) = Len(LoadedFiles)
        /\ \A i \in 1..Len(LoadedFiles) :
             LET file == LoadedFiles[i]
                 id == IF Truthy(FileMeta(file), "unique-id")
                       THEN FileMeta(file)["unique-id"] ELSE file.stem
             IN  /\ DictHas(ret.val, id)
                 /\ DictGet(ret.val, id) = _normalize_card(FileMeta(file), FileBody(file))

-----------------------------------------------------------------------------
(* Further claims about the Beat Spec Builder.                             *)

\* the style cards the Card Store loads, in its enumeration order
LoadedStyles == _load_cards_for_type(disk, "STYLE").val

\* the positions of the style cards with the identifier STYLE_PROJECT_DEFAULT
DefaultStyles ==
    {i \in 1..Len(LoadedStyles) : LoadedStyles[i].k = <<"STYLE_PROJECT_DEFAULT">>}

\* C23: the style of a beat specification is absent exactly when no style
\* card is loaded; it is the card with the identifier STYLE_PROJECT_DEFAULT
\* when one is loaded, at whatever position; and the first loaded style card
\* otherwise.
C23_StylePrefersDefault ==
    BeatBuilt =>
        /\ "style" \notin DOMAIN ret.val <=> LoadedStyles = <<>>
        /\ DefaultStyles # {} =>
             \E i \in DefaultStyles : ret.val["style"] = LoadedStyles[i].v
        /\ (LoadedStyles # <<>> /\ DefaultStyles = {}) =>
             ret.val["style"] = LoadedStyles[1].v

\* two style cards are loaded, the default one second, and it is the style
C23_Witness ==
    /\ BeatBuilt
    /\ Len(LoadedStyles) = 2
    /\ DefaultStyles = {2}
    /\ ret.val["style"] = LoadedStyles[2].v
    /\ ret.val["style"] # LoadedStyles[1].v


\* the voice cards the Card Store loads, in its enumeration order
LoadedVoices == _load_cards_for_type(disk, "VOICE").val

\* the name on the loaded card of the beat specification's POV character,
\* empty when the card has none
PovCardName ==
    LET pov_id == ret.val["pov"].id
    IN  IF DictHas(LoadedCharacters, pov_id)
        THEN TextOf(DictGet(LoadedCharacters, pov_id), "name")
        ELSE <<>>

\* the positions of the voice cards whose character is that name
NamedVoices ==
    {i \in 1..Len(LoadedVoices) :
        /\ "character" \in DOMAIN LoadedVoices[i].v
        /\ LoadedVoices[i].v["character"] = PovCardName}

\* C24: a beat specification has no voice when it has no POV or no voice
\* card is loaded; otherwise its voice is a voice card whose character is
\* the name of the POV character when there is such a card, and the first
\* loaded voice card when there is none or the POV character has no name.
C24_VoiceFollowsPov ==
    BeatBuilt =>
        IF "pov" \notin DOMAIN ret.val \/ LoadedVoices = <<>>
        THEN "voice" \notin DOMAIN ret.val
        ELSE /\ "voice" \in DOMAIN ret.val
             /\ IF PovCardName # <<>> /\ NamedVoices # {}
                THEN \E i \in NamedVoices : ret.val["voice"] = LoadedVoices[i].v
                ELSE ret.val["voice"] = LoadedVoices[1].v

\* the POV character is named m, and of two voice cards the second, the one
\* for m, is the voice
C24_Witness ==
    /\ BeatBuilt
    /\ "pov" \in DOMAIN ret.val
    /\ PovCardName # <<>>
    /\ Len(LoadedVoices) = 2
    /\ NamedVoices = {2}
    /\ ret.val["voice"] = LoadedVoices[2].v
    /\ ret.val["voice"] # LoadedVoices[1].v


-----------------------------------------------------------------------------
(* Further claims about the Prompt Blocks.                                 *)

InstructionsBlock == DictGet(ret.val, "INSTRUCTIONS_BLOCK")

\* the text between the line of the opening tag and the line of the closing
\* tag, without its two-space indent (Find counts from 0)
Section(block, open, close) ==
    SubSeq(block, Find(block, <<open>>) + 5, Find(block, <<close>>) - 1)

GoalText == Section(InstructionsBlock, "<beatGoal>", "</beatGoal>")

HasDeclaration == Contains(InstructionsBlock, <<"<pointOfView type=\"">>)

HasFocus == Contains(InstructionsBlock, <<"\" focus=\"">>)

HasGoalSection ==
    /\ Contains(InstructionsBlock, <<"<beatGoal>">>)
    /\ Contains(InstructionsBlock, <<"</beatGoal>">>)

HasToneSection == Contains(InstructionsBlock, <<"<tone>">>)

\* the name of the beat specification's POV, empty when it has none
SpecPovName ==
    IF "pov" \in DOMAIN call.beat_spec THEN TextOf(call.beat_spec["pov"], "name")
    ELSE <<>>

SpecOutline_ == call.beat_spec.outline

SpecDefaultTone ==
    IF "style" \in DOMAIN call.beat_spec
    THEN TextOf(call.beat_spec["style"], "default_tone")
    ELSE <<>>

GivesTargetWords ==
    /\ "generator_config" \in DOMAIN call.beat_spec
    /\ "prompt_parameters" \in DOMAIN call.beat_spec["generator_config"]
    /\ "target_words" \in DOMAIN call.beat_spec["generator_config"]["prompt_parameters"]

\* C26: build_blocks_from_beat_spec returns exactly the keys CODEX_BLOCK,
\* STORY_SO_FAR_BLOCK, INSTRUCTIONS_BLOCK and TARGET_WORDS, and TARGET_WORDS
\* is the target word count of the generator configuration as a string,
\* "400" when the configuration, its prompt parameters or the count is
\* missing.
C26_FourBlocksAndTargetWords ==
    BlocksDone =>
        /\ ret.ok
        /\ Len(ret.val) = 4
        /\ KeySet(ret.val) =
              {"CODEX_BLOCK", "STORY_SO_FAR_BLOCK", "INSTRUCTIONS_BLOCK", "TARGET_WORDS"}
        /\ DictGet(ret.val, "TARGET_WORDS") =
              IF GivesTargetWords
              THEN IntToStr(call.beat_spec["generator_config"]["prompt_parameters"]["target_words"])
              ELSE <<"4", "0", "0">>

\* blocks were built for a configuration with its own target word count
C26_Witness ==
    /\ BlocksDone
    /\ GivesTargetWords
    /\ DictGet(ret.val, "TARGET_WORDS") # <<"4", "0", "0">>
    /\ Len(DictGet(ret.val, "TARGET_WORDS")) = 3


-----------------------------------------------------------------------------
(* Further claims about the Prompt Renderer.                               *)

\* the same mapping, iterated the other way round
RECURSIVE Reversed(_)
Reversed(blocks) ==
    IF blocks = <<>> THEN <<>>
    ELSE Append(Reversed(Tail(blocks)), Head(blocks))

\* C29: substitution is one pass over the template, a value put in is not
\* substituted again, and so the rendered text is the same for every
\* iteration order of the blocks mapping, also when a value holds the
\* placeholder of another block.
C29_SinglePassAnyOrder ==
    TemplateDone =>
        /\ ret.ok
        /\ ret.val = SinglePass(TemplateText, call.blocks)
        /\ ret.val = Substituted(TemplateText, Reversed(call.blocks))

-----------------------------------------------------------------------------
(* Further claims about the Job Orchestrator.                              *)

RequestedBeatPath ==
    LET TwoDigits(n) == IF n < 10 THEN <<"0">> \o IntToStr(n) ELSE IntToStr(n)
    IN  << <<"manuscript">>, <<"chapters">>,
           <<"ch">> \o TwoDigits(call.chapter_num), <<"beats">>,
           <<"sc">> \o TwoDigits(call.scene_num) \o <<"_", "b">>
               \o TwoDigits(call.beat_num) \o <<".md">> >>

\* C30: a step that fails the job leaves the beat file and its directories
\* as they were; the manuscript changes only in a step that ends the job
\* well after the model call returned, and then the one file written is the
\* requested beat file, holding the completion text.
C30_FailedRunLeavesManuscript ==
    [][call.op = "run_write_beat_job" =>
          /\ ~ret'.ok => disk'.manuscript = disk.manuscript
          /\ disk'.manuscript # disk.manuscript =>
                /\ "model_result" \in DOMAIN frame
                /\ ret'.ok
                /\ frame["model_result"].text.some
                /\ disk'.manuscript.files =
                      (RequestedBeatPath :> frame["model_result"].text.text)
                          @@ disk.manuscript.files]_vars


=============================================================================
